---- MODULE Spec2Model ----
(***************************************************************************)
(* Model of the stellargen generation engine (generator/config.go), its    *)
(* configuration layer (config/flags.go) and the main program.             *)
(*                                                                         *)
(* Numbers.  float64 values are modelled as decimal floating-point numbers *)
(* [m, e] = m * 10^e with a four digit mantissa; every arithmetic          *)
(* operation rounds (towards zero) after it is applied, in the order the   *)
(* code applies it.  Go's int is modelled as a two's complement integer of *)
(* IntBits bits.  Strings are sequences of tokens; fmt.Sprintf is the      *)
(* concatenation of the formatted arguments.                               *)
(*                                                                         *)
(* Identifiers.  uuid.New draws from the process-wide entropy source, not  *)
(* from the seeded stream; identifiers are opaque, so the k-th identifier  *)
(* issued in the process is represented by <<k>>.                          *)
(*                                                                         *)
(* Stream.  math/rand is a deterministic function of the seed; it is       *)
(* modelled by a linear congruential generator whose outputs are scaled    *)
(* to [0,1) for Float64 and to 0..n-1 for Intn.                            *)
(***************************************************************************)
EXTENDS Integers, Sequences, FiniteSets, TLC

\* ------------------------------------------------------------------- state
\* the invocations of GenerateAll that are followed
Runs == 1..2

VARIABLES
    pc,             \* pc[g]: where invocation g of GenerateAll stands
    cfg,            \* cfg[g]: the Config invocation g was called with
    rng,            \* rng[g]: the stream r of invocation g
    i,              \* i[g]: the star loop variable
    j,              \* j[g]: the loop variable of the current inner loop
    numPlanets,     \* numPlanets[g]
    numExoplanets,  \* numExoplanets[g]
    star,           \* star[g]: the star of the current iteration
    data,           \* data[g]: the GeneratedData of invocation g
    drawLog,        \* drawLog[g]: history: who consumed each value of rng[g]
    issued,         \* number of identifiers uuid.New has issued in the process
    mainpc,         \* where main stands
    app,            \* the AppConfig ParseFlags returned
    seedInput,      \* history: the --seed value given and the clock value read
    io,             \* the calls main made to the file system and the writers
    probe,          \* argument and result of a sampler step applied on its own
    store,          \* the files and tables written, by name
    wres            \* the writer called and the error it returned

vars == <<pc, cfg, rng, i, j, numPlanets, numExoplanets, star, data, drawLog,
          issued, mainpc, app, seedInput, io, probe, store, wres>>

\* ------------------------------------------------------------------ bounds
\* largest star count, planet cap and exoplanet cap of a direct call
MaxStars == 2
MaxPlanets == 2
MaxExo == 2
\* seeds range over 0..MaxSeed
MaxSeed == 24
\* --seed values range over 0..MaxFlagSeed
MaxFlagSeed == 3
\* width of Go's int in the model
IntBits == 16
\* r.Float64() returns k/Grid for k in 0..Grid-1
Grid == 100

MaxInt == 2^(IntBits - 1) - 1
MinInt == -(2^(IntBits - 1))

\* Go's wrapping integer addition result
WrapInt(x) == ((x - MinInt) % 2^IntBits) + MinInt

\* ------------------------------------------------------------- float64
RECURSIVE Pow10(_)
Pow10(k) == IF k <= 0 THEN 1 ELSE 10 * Pow10(k - 1)

RECURSIVE Norm(_, _)
Norm(m, e) ==
    IF m = 0 THEN [m |-> 0, e |-> 0]
    ELSE IF m >= 10000 THEN Norm(m \div 10, e + 1)
    ELSE IF m < 1000 THEN Norm(m * 10, e - 1)
    ELSE [m |-> m, e |-> e]

\* a float64 literal of the source: D(104, -2) is 1.04
D(m, e) == Norm(m, e)

FromInt(n) == Norm(n, 0)

FMul(x, y) == Norm(x.m * y.m, x.e + y.e)

FDiv(x, y) == Norm((x.m * 10000) \div y.m, x.e - y.e - 4)

FAdd(x, y) ==
    IF x.m = 0 THEN y
    ELSE IF y.m = 0 THEN x
    ELSE LET hi == IF x.e >= y.e THEN x ELSE y
             lo == IF x.e >= y.e THEN y ELSE x
             d  == hi.e - lo.e
         IN IF d >= 4 THEN hi
            ELSE Norm(hi.m * Pow10(d) + lo.m, lo.e)

FLt(x, y) ==
    IF y.m = 0 THEN FALSE
    ELSE IF x.m = 0 THEN TRUE
    ELSE x.e < y.e \/ (x.e = y.e /\ x.m < y.m)

FLe(x, y) == x = y \/ FLt(x, y)

\* x - y for x >= y >= 0
FSub(x, y) ==
    IF y.m = 0 THEN x
    ELSE LET d == x.e - y.e
         IN IF d >= 4 THEN x
            ELSE Norm(x.m * Pow10(d) - y.m, y.e)

RECURSIVE ISqrt(_, _, _)
ISqrt(n, lo, hi) ==
    IF lo >= hi THEN lo
    ELSE LET mid == (lo + hi + 1) \div 2
         IN IF mid * mid <= n THEN ISqrt(n, mid, hi) ELSE ISqrt(n, lo, mid - 1)

\* math.Sqrt
FSqrt(x) ==
    IF x.m = 0 THEN x
    ELSE IF x.e % 2 = 0 THEN Norm(ISqrt(x.m * 10000, 0, 31622), (x.e - 4) \div 2)
    ELSE Norm(ISqrt(x.m * 100000, 0, 31622), (x.e - 5) \div 2)

\* int32(x) for a non-negative float64 x: truncation towards zero
FToInt(x) ==
    IF x.e >= 0 THEN x.m * Pow10(x.e)
    ELSE IF x.e <= -4 THEN 0
    ELSE x.m \div Pow10(-x.e)

FZero == [m |-> 0, e |-> 0]
FPos(x) == FLt(FZero, x)

\* ------------------------------------------------------------- strings
DigitChar == <<"0", "1", "2", "3", "4", "5", "6", "7", "8", "9">>

\* the %d verb of fmt.Sprintf for a non-negative integer
RECURSIVE Itoa(_)
Itoa(n) ==
    IF n < 10 THEN <<DigitChar[n + 1]>>
    ELSE Itoa(n \div 10) \o <<DigitChar[(n % 10) + 1]>>

\* ------------------------------------------------------- random stream
\* math/rand generator: a linear congruential stream; s is the generator
\* state, n the number of values drawn from it so far
LcgM == 101
LcgA == 37
LcgC == 11

\* faulty variant: a seed of 0 is replaced inside the engine
NewSourceZeroReplaced(seed) ==
    IF seed = 0 THEN [s |-> 1, n |-> 0] ELSE [s |-> seed % LcgM, n |-> 0]

\* faulty variant: the stream is seeded from process-wide state besides the seed
NewSourceEntropy(seed) == [s |-> (seed + issued) % LcgM, n |-> 0]

\* rand.New(rand.NewSource(seed))
NewSource(seed) == [s |-> seed % LcgM, n |-> 0]

Step(r) == [s |-> (LcgA * r.s + LcgC) % LcgM, n |-> r.n + 1]

\* r.Float64(): a value in [0, 1)
Float64(r) ==
    LET r2 == Step(r)
    IN [v |-> FDiv(FromInt((r2.s * Grid) \div LcgM), FromInt(Grid)), r |-> r2]

\* r.Intn(n) and r.Int31n(n) for n > 0: a value in 0..n-1
Intn(r, n) ==
    LET r2 == Step(r)
    IN [v |-> (r2.s * n) \div LcgM, r |-> r2]

\* ----------------------------------------------------------- generator
spectralTypes == <<
    [class |-> "O", massRange |-> <<D(16, 0), D(90, 0)>>,
     radiusRange |-> <<D(66, -1), D(15, 0)>>, tempRange |-> <<30000, 50000>>],
    [class |-> "B", massRange |-> <<D(21, -1), D(16, 0)>>,
     radiusRange |-> <<D(18, -1), D(66, -1)>>, tempRange |-> <<10000, 30000>>],
    [class |-> "A", massRange |-> <<D(14, -1), D(21, -1)>>,
     radiusRange |-> <<D(14, -1), D(18, -1)>>, tempRange |-> <<7500, 10000>>],
    [class |-> "F", massRange |-> <<D(104, -2), D(14, -1)>>,
     radiusRange |-> <<D(115, -2), D(14, -1)>>, tempRange |-> <<6000, 7500>>],
    [class |-> "G", massRange |-> <<D(8, -1), D(104, -2)>>,
     radiusRange |-> <<D(96, -2), D(115, -2)>>, tempRange |-> <<5200, 6000>>],
    [class |-> "K", massRange |-> <<D(45, -2), D(8, -1)>>,
     radiusRange |-> <<D(7, -1), D(96, -2)>>, tempRange |-> <<3700, 5200>>],
    [class |-> "M", massRange |-> <<D(8, -2), D(45, -2)>>,
     radiusRange |-> <<D(1, -1), D(7, -1)>>, tempRange |-> <<2400, 3700>>] >>

atmosphereTypes == <<"H2/He dominant", "N2/O2 dominant", "CO2 dominant",
    "Thin atmosphere", "No atmosphere", "H2/He with methane",
    "Sulfuric compounds", "Water vapor rich">>

detectionMethods == <<"Transit", "Radial Velocity", "Direct Imaging",
    "Gravitational Microlensing", "Astrometry", "Transit Timing Variation">>

randFloat(r, min, max) ==
    LET d == Float64(r)
    IN [v |-> FAdd(min, FMul(d.v, FSub(max, min))), r |-> d.r]

\* faulty variant: the lower bound of the range is dropped
randIntNoMin(r, min, max) ==
    LET d == Intn(r, max - min + 1)
    IN [v |-> d.v, r |-> d.r]

randInt(r, min, max) ==
    LET d == Intn(r, max - min + 1)
    IN [v |-> min + d.v, r |-> d.r]

weights == <<D(3, -5), D(13, -2), D(2, 0), D(3, 0), D(76, -1), D(121, -1), D(7645, -2)>>

\* cumulative after the first k weights (the running sum of the loops)
RECURSIVE CumulativeWeight(_)
CumulativeWeight(k) ==
    IF k = 0 THEN FZero ELSE FAdd(CumulativeWeight(k - 1), weights[k])

\* faulty variant: a value equal to a cumulative weight goes to the later class
RECURSIVE ScanWeightsStrict(_, _)
ScanWeightsStrict(val, k) ==
    IF k >= Len(weights) THEN 0
    ELSE IF FLt(val, CumulativeWeight(k + 1)) THEN k
    ELSE ScanWeightsStrict(val, k + 1)

\* the index the scan of the weights stops at (0-based, as in the code);
\* classIdx keeps its initial value 0 when no cumulative weight matches
RECURSIVE ScanWeights(_, _)
ScanWeights(val, k) ==
    IF k >= Len(weights) THEN 0
    ELSE IF FLe(val, CumulativeWeight(k + 1)) THEN k
    ELSE ScanWeights(val, k + 1)

\* faulty variant: the luminosity class is not formatted
SpectralStringNoLuminosity(class, subclass, luminosity) ==
    <<class>> \o Itoa(subclass)

\* faulty variant: only the class letter is formatted
SpectralStringClassOnly(class, subclass, luminosity) == <<class>>

SpectralString(class, subclass, luminosity) ==
    <<class>> \o Itoa(subclass) \o <<luminosity>>

generateSpectralType(r) ==
    LET total    == CumulativeWeight(Len(weights))
        d1       == Float64(r)
        val      == FMul(d1.v, total)
        classIdx == ScanWeights(val, 0)
        class    == spectralTypes[classIdx + 1].class
        d2       == Intn(d1.r, 10)
    IN [v |-> SpectralString(class, d2.v, "V"), r |-> d2.r]

\* faulty variant: the lookup never matches and classIdx stays 0
FindClassNoMatch(classChar, k) == 0

\* the first table entry whose class letter is classChar, else entry 0
RECURSIVE FindClass(_, _)
FindClass(classChar, k) ==
    IF k >= Len(spectralTypes) THEN 0
    ELSE IF spectralTypes[k + 1].class = classChar THEN k
    ELSE FindClass(classChar, k + 1)

\* faulty variant: the name is built from the 0-based loop variable
StarNameZeroBased(index) == <<"Star-">> \o Itoa(index - 1)

StarName(index) == <<"Star-">> \o Itoa(index)

\* faulty variant: one identifier is used for every entity
uuidNewFixed(count) == <<1>>

\* uuid.New().String(): a fresh identifier, the (issued+1)-th of the process
uuidNew(count) == <<count + 1>>

generateStar(r, index, id) ==
    LET sp == generateSpectralType(r)
        st == spectralTypes[FindClass(sp.v[1], 0) + 1]
        dm == randFloat(sp.r, st.massRange[1], st.massRange[2])
        dr == randFloat(dm.r, st.radiusRange[1], st.radiusRange[2])
        dt == randInt(dr.r, st.tempRange[1], st.tempRange[2])
    IN [v |-> [ID |-> id, Name |-> StarName(index), SpectralType |-> sp.v,
               Mass |-> dm.v, Radius |-> dr.v, Temperature |-> dt.v],
        r |-> dt.r]

\* faulty variant: the axis is squared, not cubed
KeplerPeriodSquareAxis(semiMajorAxis, starMass) ==
    FMul([m |-> 36525, e |-> -2],
         FSqrt(FDiv(FMul(semiMajorAxis, semiMajorAxis), starMass)))

\* 365.25 * math.Sqrt(a*a*a / star.Mass)
KeplerPeriod(semiMajorAxis, starMass) ==
    FMul([m |-> 36525, e |-> -2],
         FSqrt(FDiv(FMul(FMul(semiMajorAxis, semiMajorAxis), semiMajorAxis), starMass)))

\* faulty variant: the star's mass is taken for its radius
SurfaceTempFromMass(parent, semiMajorAxis) ==
    FToInt(FMul(FromInt(parent.Temperature),
                FSqrt(FDiv(parent.Mass, FMul(D(2, 0), semiMajorAxis)))))

\* int32(float64(star.Temperature) * math.Sqrt(star.Radius / (2.0 * a)))
SurfaceTemp(parent, semiMajorAxis) ==
    FToInt(FMul(FromInt(parent.Temperature),
                FSqrt(FDiv(parent.Radius, FMul(D(2, 0), semiMajorAxis)))))

\* faulty variant: the parent reference taken from the wrong field
StarRefByName(parent) == parent.Name

\* the parent reference stored in a planet or exoplanet
StarRef(parent) == parent.ID

\* faulty variant: the name is built without the star's name
PlanetNameNoStar(parent, index) == <<"Planet-">> \o Itoa(index)

PlanetName(parent, index) == parent.Name \o <<"-Planet-">> \o Itoa(index)

ExoName(parent, index) == parent.Name \o <<"-Exo-">> \o Itoa(index)

\* the mass range and the radius range <<massMin, massMax, radiusMin,
\* radiusMax>> of the three branches on planetType
RockyRanges == <<D(1, -1), D(5, 0), D(3, -1), D(2, 0)>>
IceGiantRanges == <<D(5, 0), D(20, 0), D(2, 0), D(4, 0)>>
GasGiantRanges == <<D(20, 0), D(1000, 0), D(4, 0), D(15, 0)>>

\* faulty variant: the ice giant branch samples the gas giant radius
PlanetRegimeMixed(planetType) ==
    IF FLt(planetType, D(3, -1)) THEN RockyRanges
    ELSE IF FLt(planetType, D(6, -1))
         THEN <<IceGiantRanges[1], IceGiantRanges[2], GasGiantRanges[3], GasGiantRanges[4]>>
    ELSE GasGiantRanges

\* faulty variant: the cut points belong to the lower band
PlanetRegimeClosedHigh(planetType) ==
    IF FLe(planetType, D(3, -1)) THEN RockyRanges
    ELSE IF FLe(planetType, D(6, -1)) THEN IceGiantRanges
    ELSE GasGiantRanges

\* if planetType < 0.3 ... else if planetType < 0.6 ... else ...
PlanetRegime(planetType) ==
    IF FLt(planetType, D(3, -1)) THEN RockyRanges
    ELSE IF FLt(planetType, D(6, -1)) THEN IceGiantRanges
    ELSE GasGiantRanges

\* faulty variant: the planet sampler draws from the exoplanet range
PlanetEccentricityWide(r) == randFloat(r, FZero, D(5, -1))

\* Eccentricity: randFloat(r, 0.0, 0.3)
PlanetEccentricity(r) == randFloat(r, FZero, D(3, -1))

\* Eccentricity: randFloat(r, 0.0, 0.5)
ExoEccentricity(r) == randFloat(r, FZero, D(5, -1))

generatePlanet(r, parent, index, id) ==
    LET da   == randFloat(r, D(5, -2), D(50, 0))
        orbitalPeriod == KeplerPeriod(da.v, parent.Mass)
        dty  == Float64(da.r)
        regime == PlanetRegime(dty.v)
        dm   == randFloat(dty.r, regime[1], regime[2])
        dr   == randFloat(dm.r, regime[3], regime[4])
        de   == PlanetEccentricity(dr.r)
        dat  == Intn(de.r, Len(atmosphereTypes))
        drg  == Float64(dat.r)
        dmo  == Float64(drg.r)
        dy   == randInt(dmo.r, 1990, 2024)
    IN [v |-> [ID |-> id, Name |-> PlanetName(parent, index),
               OrbitalPeriod |-> orbitalPeriod, SemiMajorAxis |-> da.v,
               Eccentricity |-> de.v, Mass |-> dm.v, Radius |-> dr.v,
               Atmosphere |-> atmosphereTypes[dat.v + 1],
               SurfaceTemp |-> SurfaceTemp(parent, da.v),
               HasRings |-> FLt(drg.v, D(2, -1)), HasMoons |-> FLt(dmo.v, D(6, -1)),
               DiscoveryYear |-> dy.v, StarID |-> StarRef(parent)],
        r |-> dy.r]

generateExoplanet(r, parent, index, id) ==
    LET da   == randFloat(r, D(1, -2), D(5, 0))
        orbitalPeriod == KeplerPeriod(da.v, parent.Mass)
        dm   == randFloat(da.r, D(5, -1), D(500, 0))
        dr   == randFloat(dm.r, D(5, -1), D(12, 0))
        dh   == randFloat(dr.r, D(10, 0), D(10000, 0))
        de   == ExoEccentricity(dh.r)
        dd   == Intn(de.r, Len(detectionMethods))
        dy   == randInt(dd.r, 1990, 2024)
    IN [v |-> [ID |-> id, Name |-> ExoName(parent, index),
               OrbitalPeriod |-> orbitalPeriod, SemiMajorAxis |-> da.v,
               Eccentricity |-> de.v, Mass |-> dm.v, Radius |-> dr.v,
               DetectionMethod |-> detectionMethods[dd.v + 1],
               HostDistance |-> dh.v, SurfaceTemp |-> SurfaceTemp(parent, da.v),
               DiscoveryYear |-> dy.v, StarID |-> StarRef(parent)],
        r |-> dy.r]

NoConfig == [NumStars |-> 0, PlanetsPerStar |-> 0, ExoPerStar |-> 0, Seed |-> 0]
NoStar == [ID |-> <<>>, Name |-> <<>>, SpectralType |-> <<>>,
           Mass |-> FZero, Radius |-> FZero, Temperature |-> 0]
NoData == [Stars |-> <<>>, Planets |-> <<>>, Exoplanets |-> <<>>]
NoApp == [NumStars |-> 0, PlanetsPerStar |-> 0, ExoPerStar |-> 0, Seed |-> 0,
          OutputFormat |-> "", ConfigFile |-> "", DryRun |-> FALSE]
NoSeedInput == [flag |-> 0, clock |-> <<>>]
NoProbe == [fn |-> "none", arg |-> FZero, out |-> <<>>]

\* the program before main or a test has run
ProgramInit ==
    /\ issued = 0
    /\ pc = [g \in Runs |-> "idle"]
    /\ cfg = [g \in Runs |-> NoConfig]
    /\ rng = [g \in Runs |-> NewSource(0)]
    /\ i = [g \in Runs |-> 0]
    /\ j = [g \in Runs |-> 0]
    /\ numPlanets = [g \in Runs |-> 0]
    /\ numExoplanets = [g \in Runs |-> 0]
    /\ star = [g \in Runs |-> NoStar]
    /\ data = [g \in Runs |-> NoData]
    /\ drawLog = [g \in Runs |-> <<>>]
    /\ mainpc = "start"
    /\ app = NoApp
    /\ seedInput = NoSeedInput
    /\ io = <<>>
    /\ store = <<>>
    /\ wres = <<>>

Init ==
    /\ ProgramInit
    /\ probe = NoProbe

\* ------------------------------------------------------ configuration
\* command-line values tried for --num-stars, --planets-per-star,
\* --exo-per-star and --seed
NumStarsFlags == {-1, 0, 1, MaxStars}
PlanetsFlags == {-1, 0, MaxPlanets, 15, 16}
ExoFlags == {-1, 0, MaxExo, 8, 9}
Seeds == 0..MaxSeed
\* the --seed values tried on the command line, and the clock values
FlagSeeds == 0..MaxFlagSeed

\* values tried for --output-format, --config and --dry-run
OutputFormats == {"csv", "json", "parquet", "cassandra", "xml"}
ConfigFiles == {"", "cassandra.yaml"}

\* the checks of ParseFlags after flag.Parse(); now is time.Now().UnixNano()
Validate(f, now) ==
    [f EXCEPT
       !.NumStars       = IF f.NumStars < 1 THEN 1 ELSE f.NumStars,
       !.PlanetsPerStar = IF f.PlanetsPerStar > 15 THEN 15 ELSE f.PlanetsPerStar,
       !.ExoPerStar     = IF f.ExoPerStar > 8 THEN 8 ELSE f.ExoPerStar,
       !.Seed           = IF f.Seed = 0 THEN now ELSE f.Seed]

ParseFlags ==
    /\ mainpc = "start"
    /\ \E n \in NumStarsFlags, p \in PlanetsFlags, e \in ExoFlags,
          sd \in FlagSeeds, now \in FlagSeeds \ {0},
          fmt \in OutputFormats, cf \in ConfigFiles, dry \in BOOLEAN :
          /\ app' = Validate([NumStars |-> n, PlanetsPerStar |-> p,
                              ExoPerStar |-> e, Seed |-> sd, OutputFormat |-> fmt,
                              ConfigFile |-> cf, DryRun |-> dry], now)
          /\ seedInput' = [flag |-> sd,
                           clock |-> IF sd = 0 THEN <<now>> ELSE <<>>]
    /\ mainpc' = "parsed"
    /\ UNCHANGED <<pc, cfg, rng, i, j, numPlanets, numExoplanets, star, data,
                   drawLog, issued, io, probe, store, wres>>

\* ---------------------------------------------------------- GenerateAll
\* configurations of a direct call (as the tests call GenerateAll)
Configs ==
    [NumStars : -1..MaxStars,
     PlanetsPerStar : 0..MaxPlanets \cup {MaxInt},
     ExoPerStar : 0..MaxExo \cup {MaxInt},
     Seed : Seeds]

\* faulty variant: the loop condition off by one
StarLoopCondInclusive(idx, numStars) == idx <= numStars

\* i < cfg.NumStars
StarLoopCond(idx, numStars) == idx < numStars

\* faulty variant: the samplers get the 0-based loop variable
OrdinalZeroBased(idx) == idx

\* the 1-based ordinal handed to a sampler by a 0-based loop variable
Ordinal(idx) == idx + 1

\* faulty variant: the count is drawn from 0..cap+1
CountArgPlusTwo(cap) == WrapInt(cap + 2)

\* faulty variant: the cap is handed to r.Intn without the + 1
CountArgNoIncrement(cap) == cap

\* the argument of r.Intn for a cap: cap + 1 in Go's int
CountArg(cap) == WrapInt(cap + 1)

\* entry of GenerateAll for the invocations in G: the stream, the empty
\* result; make panics on a negative capacity
GenerateAllStart(G, c) ==
    /\ \A g \in G : pc[g] = "idle"
    /\ pc' = [g \in Runs |-> IF g \in G
                             THEN (IF c.NumStars < 0 THEN "panic" ELSE "star")
                             ELSE pc[g]]
    /\ cfg' = [g \in Runs |-> IF g \in G THEN c ELSE cfg[g]]
    /\ rng' = [g \in Runs |-> IF g \in G THEN NewSource(c.Seed) ELSE rng[g]]
    /\ data' = [g \in Runs |-> IF g \in G THEN NoData ELSE data[g]]
    /\ i' = [g \in Runs |-> IF g \in G THEN 0 ELSE i[g]]
    /\ UNCHANGED <<j, numPlanets, numExoplanets, star, drawLog, issued>>

\* history: the n values just drawn were consumed by (kind, star, ordinal)
Logged(g, kind, ord, r2) ==
    drawLog[g] \o [k \in 1..(r2.n - rng[g].n) |-> <<kind, Ordinal(i[g]), ord>>]

\* faulty variant: the new star is put in front of the Stars sequence
StarLoopPrepend(g) ==
    /\ pc[g] = "star"
    /\ StarLoopCond(i[g], cfg[g].NumStars)
    /\ LET res == generateStar(rng[g], Ordinal(i[g]), uuidNew(issued))
       IN /\ star' = [star EXCEPT ![g] = res.v]
          /\ data' = [data EXCEPT ![g].Stars = <<res.v>> \o @]
          /\ rng' = [rng EXCEPT ![g] = res.r]
          /\ drawLog' = [drawLog EXCEPT ![g] = Logged(g, "star", 0, res.r)]
    /\ issued' = issued + 1
    /\ pc' = [pc EXCEPT ![g] = "pcount"]
    /\ UNCHANGED <<cfg, i, j, numPlanets, numExoplanets, mainpc, app, seedInput, io, probe, store, wres>>

StarLoop(g) ==
    /\ pc[g] = "star"
    /\ StarLoopCond(i[g], cfg[g].NumStars)
    /\ LET res == generateStar(rng[g], Ordinal(i[g]), uuidNew(issued))
       IN /\ star' = [star EXCEPT ![g] = res.v]
          /\ data' = [data EXCEPT ![g].Stars = Append(@, res.v)]
          /\ rng' = [rng EXCEPT ![g] = res.r]
          /\ drawLog' = [drawLog EXCEPT ![g] = Logged(g, "star", 0, res.r)]
    /\ issued' = issued + 1
    /\ pc' = [pc EXCEPT ![g] = "pcount"]
    /\ UNCHANGED <<cfg, i, j, numPlanets, numExoplanets, mainpc, app, seedInput, io, probe, store, wres>>

PlanetCount(g) ==
    /\ pc[g] = "pcount"
    /\ LET n == CountArg(cfg[g].PlanetsPerStar)
           d == Intn(rng[g], n)
       IN IF n <= 0
          THEN /\ pc' = [pc EXCEPT ![g] = "panic"]
               /\ UNCHANGED <<rng, drawLog, numPlanets, j>>
          ELSE /\ pc' = [pc EXCEPT ![g] = "planet"]
               /\ numPlanets' = [numPlanets EXCEPT ![g] = d.v]
               /\ j' = [j EXCEPT ![g] = 0]
               /\ rng' = [rng EXCEPT ![g] = d.r]
               /\ drawLog' = [drawLog EXCEPT ![g] = Logged(g, "pcount", 0, d.r)]
    /\ UNCHANGED <<cfg, i, numExoplanets, star, data, issued, mainpc, app, seedInput, io, probe, store, wres>>

\* faulty variant: the planet sampler is handed one stream shared by all
\* invocations
PlanetLoopSharedStream(g) ==
    /\ pc[g] = "planet"
    /\ j[g] < numPlanets[g]
    /\ LET res == generatePlanet(rng[1], star[g], Ordinal(j[g]), uuidNew(issued))
       IN /\ data' = [data EXCEPT ![g].Planets = Append(@, res.v)]
          /\ rng' = [rng EXCEPT ![1] = res.r]
          /\ drawLog' = [drawLog EXCEPT ![g] = Logged(g, "planet", Ordinal(j[g]), res.r)]
    /\ issued' = issued + 1
    /\ j' = [j EXCEPT ![g] = @ + 1]
    /\ UNCHANGED <<pc, cfg, i, numPlanets, numExoplanets, star, mainpc, app, seedInput, io, probe, store, wres>>

PlanetLoop(g) ==
    /\ pc[g] = "planet"
    /\ j[g] < numPlanets[g]
    /\ LET res == generatePlanet(rng[g], star[g], Ordinal(j[g]), uuidNew(issued))
       IN /\ data' = [data EXCEPT ![g].Planets = Append(@, res.v)]
          /\ rng' = [rng EXCEPT ![g] = res.r]
          /\ drawLog' = [drawLog EXCEPT ![g] = Logged(g, "planet", Ordinal(j[g]), res.r)]
    /\ issued' = issued + 1
    /\ j' = [j EXCEPT ![g] = @ + 1]
    /\ UNCHANGED <<pc, cfg, i, numPlanets, numExoplanets, star, mainpc, app, seedInput, io, probe, store, wres>>

ExoCount(g) ==
    /\ pc[g] = "planet"
    /\ ~(j[g] < numPlanets[g])
    /\ LET n == CountArg(cfg[g].ExoPerStar)
           d == Intn(rng[g], n)
       IN IF n <= 0
          THEN /\ pc' = [pc EXCEPT ![g] = "panic"]
               /\ UNCHANGED <<rng, drawLog, numExoplanets, j>>
          ELSE /\ pc' = [pc EXCEPT ![g] = "exo"]
               /\ numExoplanets' = [numExoplanets EXCEPT ![g] = d.v]
               /\ j' = [j EXCEPT ![g] = 0]
               /\ rng' = [rng EXCEPT ![g] = d.r]
               /\ drawLog' = [drawLog EXCEPT ![g] = Logged(g, "ecount", 0, d.r)]
    /\ UNCHANGED <<cfg, i, numPlanets, star, data, issued, mainpc, app, seedInput, io, probe, store, wres>>

ExoLoop(g) ==
    /\ pc[g] = "exo"
    /\ j[g] < numExoplanets[g]
    /\ LET res == generateExoplanet(rng[g], star[g], Ordinal(j[g]), uuidNew(issued))
       IN /\ data' = [data EXCEPT ![g].Exoplanets = Append(@, res.v)]
          /\ rng' = [rng EXCEPT ![g] = res.r]
          /\ drawLog' = [drawLog EXCEPT ![g] = Logged(g, "exo", Ordinal(j[g]), res.r)]
    /\ issued' = issued + 1
    /\ j' = [j EXCEPT ![g] = @ + 1]
    /\ UNCHANGED <<pc, cfg, i, numPlanets, numExoplanets, star, mainpc, app, seedInput, io, probe, store, wres>>

\* faulty variant: the loop variable is not incremented
EndIterationNoIncrement(g) ==
    /\ pc[g] = "exo"
    /\ ~(j[g] < numExoplanets[g])
    /\ pc' = [pc EXCEPT ![g] = "star"]
    /\ UNCHANGED <<cfg, rng, i, j, numPlanets, numExoplanets, star, data, drawLog,
                   issued, mainpc, app, seedInput, io, probe, store, wres>>

\* end of one iteration of the star loop: i++
EndIteration(g) ==
    /\ pc[g] = "exo"
    /\ ~(j[g] < numExoplanets[g])
    /\ i' = [i EXCEPT ![g] = @ + 1]
    /\ pc' = [pc EXCEPT ![g] = "star"]
    /\ UNCHANGED <<cfg, rng, j, numPlanets, numExoplanets, star, data, drawLog,
                   issued, mainpc, app, seedInput, io, probe, store, wres>>

\* return data
Return(g) ==
    /\ pc[g] = "star"
    /\ ~StarLoopCond(i[g], cfg[g].NumStars)
    /\ pc' = [pc EXCEPT ![g] = "done"]
    /\ UNCHANGED <<cfg, rng, i, j, numPlanets, numExoplanets, star, data, drawLog,
                   issued, mainpc, app, seedInput, io, probe, store, wres>>

\* ------------------------------------------------------------- writers
\* the fields of models.Star, models.Planet and models.Exoplanet, in order
StarFields == <<"ID", "Name", "SpectralType", "Mass", "Radius", "Temperature">>

PlanetFields ==
    <<"ID", "Name", "OrbitalPeriod", "SemiMajorAxis", "Eccentricity", "Mass",
      "Radius", "Atmosphere", "SurfaceTemp", "HasRings", "HasMoons",
      "DiscoveryYear", "StarID">>

ExoplanetFields ==
    <<"ID", "Name", "OrbitalPeriod", "SemiMajorAxis", "Eccentricity", "Mass",
      "Radius", "DetectionMethod", "HostDistance", "SurfaceTemp",
      "DiscoveryYear", "StarID">>

\* fmt.Sprintf("%.6f", x): x rounded to six decimals
Sprintf6(x) ==
    IF x.e >= -6 THEN x
    ELSE LET cut == Pow10(-6 - x.e)
         IN Norm((x.m + cut \div 2) \div cut, -6)

\* what a file writer left behind: whether the file exists, its columns and
\* rows, whether all of it reached the disk, and whether the writer returned
\* an error
FileResult(made, columns, rows, complete, err) ==
    [made |-> made, file |-> [columns |-> columns, rows |-> rows, complete |-> complete],
     err |-> err]

\* a CSV file writer after the header and the records were handed to the
\* csv.Writer: os.Create fails; a Write fails; the deferred Flush fails; the
\* deferred Close fails; errors of the deferred calls do not reach the caller
csvFile(header, records, outcome) ==
    IF outcome = "create" THEN FileResult(FALSE, <<>>, <<>>, FALSE, TRUE)
    ELSE IF outcome = "write" THEN FileResult(TRUE, <<>>, <<>>, FALSE, TRUE)
    ELSE IF outcome = "flush" THEN FileResult(TRUE, <<>>, <<>>, FALSE, FALSE)
    ELSE IF outcome = "close" THEN FileResult(TRUE, header, records, FALSE, FALSE)
    ELSE FileResult(TRUE, header, records, TRUE, FALSE)

\* faulty variant: the Radius column is left out of the record
starRecordCSVShort(x) ==
    <<x.ID, x.Name, x.SpectralType, Sprintf6(x.Mass), Itoa(x.Temperature)>>

starRecordCSV(x) ==
    <<x.ID, x.Name, x.SpectralType, Sprintf6(x.Mass), Sprintf6(x.Radius),
      Itoa(x.Temperature)>>

writeStarsCSV(stars, outcome) ==
    csvFile(<<"ID", "Name", "SpectralType", "Mass", "Radius", "Temperature">>,
            [k \in 1..Len(stars) |-> starRecordCSV(stars[k])], outcome)

writePlanetsCSV(planets, outcome) ==
    csvFile(<<"ID", "Name", "OrbitalPeriod", "SemiMajorAxis", "Eccentricity",
              "Mass", "Radius", "Atmosphere", "SurfaceTemp", "HasRings",
              "HasMoons", "DiscoveryYear", "StarID">>,
            [k \in 1..Len(planets) |->
                LET x == planets[k]
                IN <<x.ID, x.Name, Sprintf6(x.OrbitalPeriod), Sprintf6(x.SemiMajorAxis),
                     Sprintf6(x.Eccentricity), Sprintf6(x.Mass), Sprintf6(x.Radius),
                     x.Atmosphere, Itoa(x.SurfaceTemp),
                     IF x.HasRings THEN "true" ELSE "false",
                     IF x.HasMoons THEN "true" ELSE "false",
                     Itoa(x.DiscoveryYear), x.StarID>>], outcome)

writeExoplanetsCSV(exoplanets, outcome) ==
    csvFile(<<"ID", "Name", "OrbitalPeriod", "SemiMajorAxis", "Eccentricity",
              "Mass", "Radius", "DetectionMethod", "HostDistance", "SurfaceTemp",
              "DiscoveryYear", "StarID">>,
            [k \in 1..Len(exoplanets) |->
                LET x == exoplanets[k]
                IN <<x.ID, x.Name, Sprintf6(x.OrbitalPeriod), Sprintf6(x.SemiMajorAxis),
                     Sprintf6(x.Eccentricity), Sprintf6(x.Mass), Sprintf6(x.Radius),
                     x.DetectionMethod, Sprintf6(x.HostDistance), Itoa(x.SurfaceTemp),
                     Itoa(x.DiscoveryYear), x.StarID>>], outcome)

\* the store st with the file a file writer left behind
Put(st, name, res) == IF res.made THEN (name :> res.file) @@ st ELSE st

\* the three file writers of one format in turn: the first error returned
\* ends the function; errors are <<message>>, nil is <<>>
WriteThree(st, names, results, what) ==
    LET st1 == Put(st, names[1], results[1])
        st2 == Put(st1, names[2], results[2])
        st3 == Put(st2, names[3], results[3])
    IN IF results[1].err
       THEN [store |-> st1, err |-> <<"failed to write stars " \o what>>]
       ELSE IF results[2].err
       THEN [store |-> st2, err |-> <<"failed to write planets " \o what>>]
       ELSE IF results[3].err
       THEN [store |-> st3, err |-> <<"failed to write exoplanets " \o what>>]
       ELSE [store |-> st3, err |-> <<>>]

WriteCSV(st, d, oc) ==
    WriteThree(st, <<"stars.csv", "planets.csv", "exoplanets.csv">>,
               <<writeStarsCSV(d.Stars, oc[1]),
                 writePlanetsCSV(d.Planets, oc[2]),
                 writeExoplanetsCSV(d.Exoplanets, oc[3])>>, "CSV")

\* writeJSONFile: os.Create fails; encoder.Encode fails; the deferred Close
\* fails, which does not reach the caller
writeJSONFile(entities, outcome) ==
    LET columns == IF Len(entities) = 0 THEN <<>> ELSE <<DOMAIN entities[1]>>
    IN
    IF outcome = "create" THEN FileResult(FALSE, <<>>, <<>>, FALSE, TRUE)
    ELSE IF outcome = "encode" THEN FileResult(TRUE, <<>>, <<>>, FALSE, TRUE)
    ELSE IF outcome = "close"
         THEN FileResult(TRUE, columns, entities, FALSE, FALSE)
    ELSE FileResult(TRUE, columns, entities, TRUE, FALSE)

WriteJSON(st, d, oc) ==
    WriteThree(st, <<"stars.json", "planets.json", "exoplanets.json">>,
               <<writeJSONFile(d.Stars, oc[1]),
                 writeJSONFile(d.Planets, oc[2]),
                 writeJSONFile(d.Exoplanets, oc[3])>>, "JSON")

\* a Parquet file writer: NewLocalFileWriter fails; NewParquetWriter fails;
\* pw.Write fails; pw.WriteStop fails; the deferred Close fails, which does
\* not reach the caller
parquetFile(columns, rows, outcome) ==
    IF outcome = "create" THEN FileResult(FALSE, <<>>, <<>>, FALSE, TRUE)
    ELSE IF outcome \in {"open", "write", "stop"}
         THEN FileResult(TRUE, <<>>, <<>>, FALSE, TRUE)
    ELSE IF outcome = "close" THEN FileResult(TRUE, columns, rows, FALSE, FALSE)
    ELSE FileResult(TRUE, columns, rows, TRUE, FALSE)

\* the fields of the Parquet structs, and their column tags
StarParquet(x) ==
    <<x.ID, x.Name, x.SpectralType, x.Mass, x.Radius, x.Temperature>>

PlanetParquet(x) ==
    <<x.ID, x.Name, x.OrbitalPeriod, x.SemiMajorAxis, x.Eccentricity, x.Mass,
      x.Radius, x.Atmosphere, x.SurfaceTemp, x.HasRings, x.HasMoons,
      x.DiscoveryYear, x.StarID>>

ExoplanetParquet(x) ==
    <<x.ID, x.Name, x.OrbitalPeriod, x.SemiMajorAxis, x.Eccentricity, x.Mass,
      x.Radius, x.DetectionMethod, x.HostDistance, x.SurfaceTemp,
      x.DiscoveryYear, x.StarID>>

\* WriteParquet with writeStarsParquet, writePlanetsParquet and
\* writeExoplanetsParquet, which convert every entity and write it
WriteParquet(st, d, oc) ==
    WriteThree(st, <<"stars.parquet", "planets.parquet", "exoplanets.parquet">>,
       <<parquetFile(<<"id", "name", "spectral_type", "mass", "radius", "temperature">>,
                     [k \in 1..Len(d.Stars) |-> StarParquet(d.Stars[k])], oc[1]),
         parquetFile(<<"id", "name", "orbital_period", "semi_major_axis",
                       "eccentricity", "mass", "radius", "atmosphere",
                       "surface_temp", "has_rings", "has_moons", "discovery_year",
                       "star_id">>,
                     [k \in 1..Len(d.Planets) |-> PlanetParquet(d.Planets[k])], oc[2]),
         parquetFile(<<"id", "name", "orbital_period", "semi_major_axis",
                       "eccentricity", "mass", "radius", "detection_method",
                       "host_distance", "surface_temp", "discovery_year", "star_id">>,
                     [k \in 1..Len(d.Exoplanets) |-> ExoplanetParquet(d.Exoplanets[k])],
                     oc[3])>>, "parquet")

\* ------------------------------------------------- Cassandra configuration
\* strings the configuration code inspects are sequences of characters
LowerCase ==
    <<"a", "b", "c", "d", "e", "f", "g", "h", "i", "j", "k", "l", "m",
      "n", "o", "p", "q", "r", "s", "t", "u", "v", "w", "x", "y", "z">>

UpperCase ==
    <<"A", "B", "C", "D", "E", "F", "G", "H", "I", "J", "K", "L", "M",
      "N", "O", "P", "Q", "R", "S", "T", "U", "V", "W", "X", "Y", "Z">>

Digits == {"0", "1", "2", "3", "4", "5", "6", "7", "8", "9"}

\* r >= 'a' && r <= 'z', r >= 'A' && r <= 'Z'
IsLower(c) == \E k \in 1..Len(LowerCase) : LowerCase[k] = c
IsUpper(c) == \E k \in 1..Len(UpperCase) : UpperCase[k] = c

\* strings.ToUpper
ToUpper(str) ==
    [k \in 1..Len(str) |->
        IF IsLower(str[k])
        THEN UpperCase[CHOOSE n \in 1..Len(LowerCase) : LowerCase[n] = str[k]]
        ELSE str[k]]

\* strings.TrimSpace
RECURSIVE TrimSpace(_)
TrimSpace(str) ==
    IF str = <<>> THEN str
    ELSE IF Head(str) = " " THEN TrimSpace(Tail(str))
    ELSE IF str[Len(str)] = " " THEN TrimSpace(SubSeq(str, 1, Len(str) - 1))
    ELSE str

\* the defaults setDefaults fills in
DefaultHosts == << <<"1", "2", "7", ".", "0", ".", "0", ".", "1">> >>
DefaultKeyspace == <<"s", "t", "e", "l", "l", "a", "r", "g", "e", "n">>
DefaultConsistency == <<"Q", "U", "O", "R", "U", "M">>
DefaultPort == 9042
DefaultTimeout == 30
DefaultConnectTimeout == 10
DefaultNumConns == 2

setDefaults(c) ==
    LET class == IF c.ReplicationClass = "" THEN "SimpleStrategy"
                 ELSE c.ReplicationClass
    IN [c EXCEPT
          !.Hosts = IF Len(@) = 0 THEN DefaultHosts ELSE @,
          !.Keyspace = IF @ = <<>> THEN DefaultKeyspace ELSE @,
          !.Consistency = IF @ = <<>> THEN DefaultConsistency ELSE @,
          !.ReplicationClass = class,
          !.ReplicationFactor = IF @ = 0 /\ class = "SimpleStrategy" THEN 1 ELSE @,
          !.Port = IF @ = 0 THEN DefaultPort ELSE @,
          !.Timeout = IF @ = 0 THEN DefaultTimeout ELSE @,
          !.ConnectTimeout = IF @ = 0 THEN DefaultConnectTimeout ELSE @,
          !.NumConns = IF @ = 0 THEN DefaultNumConns ELSE @]

MaxKeyspaceLen == 48

isValidKeyspaceName(name) ==
    /\ ~(Len(name) = 0 \/ Len(name) > MaxKeyspaceLen)
    /\ ~(name[1] \in Digits)
    /\ \A k \in 1..Len(name) :
          IsLower(name[k]) \/ IsUpper(name[k]) \/ name[k] \in Digits \/ name[k] = "_"

validConsistencies ==
    { <<"A", "N", "Y">>, <<"O", "N", "E">>, <<"T", "W", "O">>,
      <<"T", "H", "R", "E", "E">>, <<"Q", "U", "O", "R", "U", "M">>,
      <<"A", "L", "L">>,
      <<"L", "O", "C", "A", "L", "_", "Q", "U", "O", "R", "U", "M">>,
      <<"E", "A", "C", "H", "_", "Q", "U", "O", "R", "U", "M">>,
      <<"L", "O", "C", "A", "L", "_", "O", "N", "E">> }

validStrategies == {"SimpleStrategy", "NetworkTopologyStrategy"}

MaxPort == 65535

\* the error validateCassandraConfig returns for c, <<>> for nil
validateCassandraConfig(c) ==
    IF Len(c.Hosts) = 0 THEN <<"at least one host must be specified">>
    ELSE IF \E k \in 1..Len(c.Hosts) : TrimSpace(c.Hosts[k]) = <<>>
    THEN <<"host is empty">>
    ELSE IF c.Keyspace = <<>> THEN <<"keyspace name cannot be empty">>
    ELSE IF ~isValidKeyspaceName(c.Keyspace) THEN <<"invalid keyspace name">>
    ELSE IF ToUpper(c.Consistency) \notin validConsistencies
    THEN <<"invalid consistency level">>
    ELSE IF c.ReplicationClass \notin validStrategies
    THEN <<"invalid replication class">>
    ELSE IF c.ReplicationClass = "SimpleStrategy" /\ c.ReplicationFactor < 1
    THEN <<"replication_factor must be at least 1 for SimpleStrategy">>
    ELSE IF c.ReplicationClass = "NetworkTopologyStrategy" /\ DOMAIN c.DataCenters = {}
    THEN <<"data_centers must be specified for NetworkTopologyStrategy">>
    ELSE IF /\ c.ReplicationClass = "NetworkTopologyStrategy"
            /\ \E dc \in DOMAIN c.DataCenters : c.DataCenters[dc] < 1
    THEN <<"replication factor for datacenter must be at least 1">>
    ELSE IF c.Port < 1 \/ c.Port > MaxPort THEN <<"invalid port">>
    ELSE IF c.Timeout < 1 THEN <<"timeout must be at least 1 second">>
    ELSE IF c.ConnectTimeout < 1 THEN <<"connect_timeout must be at least 1 second">>
    ELSE IF c.NumConns < 1 THEN <<"num_conns must be at least 1">>
    ELSE <<>>

\* a nil *CassandraConfig
NilConfig == [nil |-> TRUE]

\* a file with no keys
EmptyYaml ==
    [Hosts |-> <<>>, Keyspace |-> <<>>, Consistency |-> <<>>, ReplicationClass |-> "",
     ReplicationFactor |-> 0, DataCenters |-> <<>>, Port |-> 0,
     Timeout |-> 0, ConnectTimeout |-> 0, NumConns |-> 0]

\* faulty variant: validation happens before the defaults are filled in
LoadCassandraConfigValidateFirst(file) ==
    IF ~file.readable THEN [cfg |-> NilConfig, err |-> <<"failed to read config file">>]
    ELSE IF ~file.parses THEN [cfg |-> NilConfig, err |-> <<"failed to parse YAML config">>]
    ELSE IF validateCassandraConfig(file.yaml) # <<>>
         THEN [cfg |-> NilConfig, err |-> <<"invalid configuration">>]
         ELSE [cfg |-> [setDefaults(file.yaml) EXCEPT !.Consistency = ToUpper(@)], err |-> <<>>]

\* LoadCassandraConfig(filename) for a file that can be read or not, holds
\* YAML or not, and unmarshals to the fields yaml; a validation that returns
\* nil has stored the consistency level upper-cased
LoadCassandraConfig(file) ==
    IF ~file.readable THEN [cfg |-> NilConfig, err |-> <<"failed to read config file">>]
    ELSE IF ~file.parses THEN [cfg |-> NilConfig, err |-> <<"failed to parse YAML config">>]
    ELSE LET c == setDefaults(file.yaml)
         IN IF validateCassandraConfig(c) # <<>>
            THEN [cfg |-> NilConfig, err |-> <<"invalid configuration">>]
            ELSE [cfg |-> [c EXCEPT !.Consistency = ToUpper(@)], err |-> <<>>]

\* the entries of the replication map GetReplicationString writes, in the
\* order of the text; order is the order in which the map DataCenters is
\* iterated
GetReplicationString(c, order) ==
    IF c.ReplicationClass = "SimpleStrategy"
    THEN << <<"class", <<"SimpleStrategy">> >>,
            <<"replication_factor", Itoa(c.ReplicationFactor)>> >>
    ELSE << <<"class", <<"NetworkTopologyStrategy">> >> >>
         \o [k \in 1..Len(order) |-> <<order[k], Itoa(c.DataCenters[order[k]])>>]

\* -------------------------------------------------------- Cassandra writer
\* createKeyspace: the keyspace and the entries of the replication map of
\* the CREATE KEYSPACE statement, in the order of the text
createKeyspace(c) ==
    [keyspace |-> c.Keyspace,
     replication |-> << <<"class", <<c.ReplicationClass>> >>,
                        <<"replication_factor", Itoa(c.ReplicationFactor)>> >>]

\* a table after createTables and the inserts of the first n entities
tableRows(columns, rows, n) ==
    FileResult(TRUE, columns, SubSeq(rows, 1, n), n = Len(rows), n < Len(rows))

\* insertStars after createTables; with fails, the Exec of the last INSERT
\* returns an error
insertStars(stars, fails) ==
    tableRows(<<"id", "name", "spectral_type", "mass", "radius", "temperature">>,
              [k \in 1..Len(stars) |->
                  <<stars[k].ID, stars[k].Name, stars[k].SpectralType,
                    stars[k].Mass, stars[k].Radius, stars[k].Temperature>>],
              IF fails /\ Len(stars) > 0 THEN Len(stars) - 1 ELSE Len(stars))

insertPlanets(planets, fails) ==
    tableRows(<<"id", "name", "orbital_period", "semi_major_axis", "eccentricity",
                "mass", "radius", "atmosphere", "surface_temp", "has_rings",
                "has_moons", "discovery_year", "star_id">>,
              [k \in 1..Len(planets) |->
                  <<planets[k].ID, planets[k].Name, planets[k].OrbitalPeriod,
                    planets[k].SemiMajorAxis, planets[k].Eccentricity,
                    planets[k].Mass, planets[k].Radius, planets[k].Atmosphere,
                    planets[k].SurfaceTemp, planets[k].HasRings,
                    planets[k].HasMoons, planets[k].DiscoveryYear,
                    planets[k].StarID>>],
              IF fails /\ Len(planets) > 0 THEN Len(planets) - 1 ELSE Len(planets))

insertExoplanets(exoplanets, fails) ==
    tableRows(<<"id", "name", "orbital_period", "semi_major_axis", "eccentricity",
                "mass", "radius", "detection_method", "host_distance",
                "surface_temp", "discovery_year", "star_id">>,
              [k \in 1..Len(exoplanets) |->
                  <<exoplanets[k].ID, exoplanets[k].Name,
                    exoplanets[k].OrbitalPeriod, exoplanets[k].SemiMajorAxis,
                    exoplanets[k].Eccentricity, exoplanets[k].Mass,
                    exoplanets[k].Radius, exoplanets[k].DetectionMethod,
                    exoplanets[k].HostDistance, exoplanets[k].SurfaceTemp,
                    exoplanets[k].DiscoveryYear, exoplanets[k].StarID>>],
              IF fails /\ Len(exoplanets) > 0 THEN Len(exoplanets) - 1
              ELSE Len(exoplanets))

\* WriteToCassandra(data, configFile); fail is the call to the cluster that
\* returns an error: "session", "keyspace", "session2", "tables" (the first
\* CREATE TABLE), "stars", "planets", "exoplanets" (the last INSERT), or none
WriteToCassandra(st, d, file, fail) ==
    LET loaded == LoadCassandraConfig(file)
        st1 == ("CREATE KEYSPACE" :> createKeyspace(loaded.cfg)) @@ st
        s == insertStars(d.Stars, fail = "stars")
        p == insertPlanets(d.Planets, fail = "planets")
        e == insertExoplanets(d.Exoplanets, fail = "exoplanets")
        none == FileResult(TRUE, <<>>, <<>>, FALSE, FALSE)
        created == Put(Put(Put(st1, "stars", [none EXCEPT !.file.columns = s.file.columns]),
                           "planets", [none EXCEPT !.file.columns = p.file.columns]),
                       "exoplanets", [none EXCEPT !.file.columns = e.file.columns])
    IN IF loaded.err # <<>> THEN [store |-> st, err |-> <<"failed to load config">>]
       ELSE IF fail = "session" THEN [store |-> st, err |-> <<"failed to create session">>]
       ELSE IF fail = "keyspace" THEN [store |-> st1, err |-> <<"failed to create keyspace">>]
       ELSE IF fail = "session2"
       THEN [store |-> st1, err |-> <<"failed to create session with keyspace">>]
       ELSE IF fail = "tables" THEN [store |-> st1, err |-> <<"failed to create stars table">>]
       ELSE IF s.err THEN [store |-> Put(created, "stars", s), err |-> <<"failed to insert star">>]
       ELSE IF p.err
       THEN [store |-> Put(Put(created, "stars", s), "planets", p),
             err |-> <<"failed to insert planet">>]
       ELSE IF e.err
       THEN [store |-> Put(Put(Put(created, "stars", s), "planets", p), "exoplanets", e),
             err |-> <<"failed to insert exoplanet">>]
       ELSE [store |-> Put(Put(Put(created, "stars", s), "planets", p), "exoplanets", e),
             err |-> <<>>]

\* a test calls GenerateAll(cfg)
TestCall ==
    /\ mainpc = "start"
    /\ \E c \in Configs : GenerateAllStart({1}, c)
    /\ mainpc' = "test"
    /\ UNCHANGED <<app, seedInput, io, probe, store, wres>>

\* genCfg of main
GenConfig(a) ==
    [NumStars |-> a.NumStars, PlanetsPerStar |-> a.PlanetsPerStar,
     ExoPerStar |-> a.ExoPerStar, Seed |-> a.Seed]

\* main: genCfg from the AppConfig, data := generator.GenerateAll(genCfg)
MainGenerate ==
    /\ mainpc = "parsed"
    /\ GenerateAllStart({1}, GenConfig(app))
    /\ mainpc' = "generating"
    /\ UNCHANGED <<app, seedInput, io, probe, store, wres>>

\* a test calls GenerateAll(cfg) a second time, with the cfg of the first
\* call, after the first call returned
SecondCall ==
    /\ mainpc = "test"
    /\ pc[1] = "done"
    /\ GenerateAllStart({2}, cfg[1])
    /\ UNCHANGED <<mainpc, app, seedInput, io, probe, store, wres>>

\* faulty variant: the dry-run flag is not looked at
DryRunIgnored(a) == FALSE

\* if cfg.DryRun
DryRunReturn(a) == a.DryRun

\* main after GenerateAll returned, dry run: nothing is written
MainDryRun ==
    /\ mainpc = "generating"
    /\ pc[1] = "done"
    /\ DryRunReturn(app)
    /\ mainpc' = "exit"
    /\ UNCHANGED <<pc, cfg, rng, i, j, numPlanets, numExoplanets, star, data,
                   drawLog, issued, app, seedInput, io, probe, store, wres>>

\* the writer the switch of main selects, <<>> when it calls none
WriterFor(a) ==
    IF a.OutputFormat = "csv" THEN <<"WriteCSV">>
    ELSE IF a.OutputFormat = "json" THEN <<"WriteJSON">>
    ELSE IF a.OutputFormat = "parquet" THEN <<"WriteParquet">>
    ELSE IF a.OutputFormat = "cassandra" /\ a.ConfigFile # "" THEN <<"WriteToCassandra">>
    ELSE <<>>

\* the writer main calls for the output format, on a disk and a cluster that
\* take every write (ok) or refuse the first one; the file --config names
\* has no keys
MainWriter(a, d, ok) ==
    LET first(bad) == IF ok THEN <<"ok", "ok", "ok">> ELSE <<bad, "ok", "ok">>
    IN IF a.OutputFormat = "csv" THEN WriteCSV(store, d, first("create"))
       ELSE IF a.OutputFormat = "json" THEN WriteJSON(store, d, first("create"))
       ELSE IF a.OutputFormat = "parquet" THEN WriteParquet(store, d, first("create"))
       ELSE WriteToCassandra(store, d, [readable |-> TRUE, parses |-> TRUE, yaml |-> EmptyYaml],
                             IF ok THEN "none" ELSE "session")

\* main after GenerateAll returned, no dry run: os.MkdirAll, then the writer
\* of the output format; a failing call ends the program with log.Fatalf
MainWrite ==
    /\ mainpc = "generating"
    /\ pc[1] = "done"
    /\ ~DryRunReturn(app)
    /\ \E mkdirOK \in BOOLEAN, writeOK \in BOOLEAN :
          IF ~mkdirOK
          THEN /\ io' = io \o <<"MkdirAll">>
               /\ mainpc' = "fatal"
               /\ UNCHANGED <<store, wres>>
          ELSE IF WriterFor(app) = <<>>
          THEN /\ io' = io \o <<"MkdirAll">>
               /\ mainpc' = "fatal"
               /\ UNCHANGED <<store, wres>>
          ELSE LET r == MainWriter(app, data[1], writeOK)
               IN /\ io' = io \o <<"MkdirAll">> \o WriterFor(app)
                  /\ store' = r.store
                  /\ wres' = wres \o <<[fn |-> WriterFor(app)[1], err |-> r.err]>>
                  /\ mainpc' = IF r.err = <<>> THEN "exit" ELSE "fatal"
    /\ UNCHANGED <<pc, cfg, rng, i, j, numPlanets, numExoplanets, star, data,
                   drawLog, issued, app, seedInput, probe>>

Next ==
    \/ ParseFlags
    \/ MainGenerate
    \/ MainDryRun
    \/ MainWrite
    \/ TestCall
    \/ StarLoop(1)
    \/ PlanetCount(1)
    \/ PlanetLoop(1)
    \/ ExoCount(1)
    \/ ExoLoop(1)
    \/ EndIteration(1)
    \/ Return(1)

Spec == Init /\ [][Next]_vars

\* the steps of the invocation of GenerateAll that main or a test made
Engine ==
    \/ StarLoop(1)
    \/ PlanetCount(1)
    \/ PlanetLoop(1)
    \/ ExoCount(1)
    \/ ExoLoop(1)
    \/ EndIteration(1)
    \/ Return(1)

NextLive ==
    \/ TestCall
    \/ Engine

\* the control flow of GenerateAll alone: what each step of the invocation
\* does to its position (the statement it is at and the loop variables)
ControlStep ==
    \/ /\ pc[1] = "star"
       /\ StarLoopCond(i[1], cfg[1].NumStars)
       /\ pc' = [pc EXCEPT ![1] = "pcount"]
       /\ UNCHANGED j
    \/ /\ pc[1] = "star"
       /\ ~StarLoopCond(i[1], cfg[1].NumStars)
       /\ pc' = [pc EXCEPT ![1] = "done"]
       /\ UNCHANGED j
    \/ /\ pc[1] = "pcount"
       /\ \/ pc' = [pc EXCEPT ![1] = "planet"] /\ j' = [j EXCEPT ![1] = 0]
          \/ pc' = [pc EXCEPT ![1] = "panic"] /\ UNCHANGED j
    \/ /\ pc[1] = "planet"
       /\ j[1] < numPlanets[1]
       /\ j' = [j EXCEPT ![1] = @ + 1]
       /\ UNCHANGED pc
    \/ /\ pc[1] = "planet"
       /\ ~(j[1] < numPlanets[1])
       /\ \/ pc' = [pc EXCEPT ![1] = "exo"] /\ j' = [j EXCEPT ![1] = 0]
          \/ pc' = [pc EXCEPT ![1] = "panic"] /\ UNCHANGED j
    \/ /\ pc[1] = "exo"
       /\ j[1] < numExoplanets[1]
       /\ j' = [j EXCEPT ![1] = @ + 1]
       /\ UNCHANGED pc
    \/ /\ pc[1] = "exo"
       /\ ~(j[1] < numExoplanets[1])
       /\ pc' = [pc EXCEPT ![1] = "star"]
       /\ UNCHANGED j

\* a call of GenerateAll by a test keeps executing: it waits for nothing, so
\* while it has a next statement its position eventually advances
SpecLive == Init /\ [][NextLive]_vars /\ WF_<<pc, j>>(ControlStep)

\* ------------------------------------------- sampler steps on their own
\* the float64 following x
NextUp(x) == Norm(x.m + 1, x.e)

\* values of val in generateSpectralType: r.Float64() * total, and the
\* cumulative weights and their successors
ClassProbes ==
    {FMul(FDiv(FromInt(k), FromInt(Grid)), CumulativeWeight(Len(weights))) :
        k \in 0..(Grid - 1)}
    \cup {CumulativeWeight(k) : k \in 1..(Len(weights) - 1)}
    \cup {NextUp(CumulativeWeight(k)) : k \in 1..(Len(weights) - 1)}

\* values of planetType in generatePlanet: r.Float64(), the cut points included
RegimeProbes ==
    {FDiv(FromInt(k), FromInt(Grid)) : k \in 0..(Grid - 1)}
    \cup {D(3, -1), D(6, -1)}

\* stars generateStar can return at the ends of the ranges of each class
CornerStars ==
    {[ID |-> uuidNew(0), Name |-> StarName(1),
      SpectralType |-> SpectralString(spectralTypes[k].class, 0, "V"),
      Mass |-> spectralTypes[k].massRange[1],
      Radius |-> spectralTypes[k].radiusRange[br],
      Temperature |-> spectralTypes[k].tempRange[bt]] :
        k \in 1..Len(spectralTypes), br \in 1..2, bt \in 1..2}

\* the ends of the axis ranges of generatePlanet and generateExoplanet
AxisEnds == {D(5, -2), D(50, 0), D(1, -2), D(5, 0)}

\* the states of the stream a sampler can be handed
StreamStates == {NewSource(sd) : sd \in 0..(LcgM - 1)}

InitSamplers ==
    /\ ProgramInit
    /\ probe \in {[fn |-> "class", arg |-> v, out |-> <<>>] : v \in ClassProbes}
             \cup {[fn |-> "regime", arg |-> v, out |-> <<>>] : v \in RegimeProbes}
             \cup {[fn |-> "temp", arg |-> [parent |-> st, axis |-> a], out |-> <<>>] :
                      st \in CornerStars, a \in AxisEnds}
             \cup {[fn |-> f, arg |-> [parent |-> st, r |-> r0], out |-> <<>>] :
                      f \in {"planet", "exo"}, st \in CornerStars, r0 \in StreamStates}

\* the scan of the weights in generateSpectralType and the class it selects
SelectClass ==
    /\ probe.fn = "class"
    /\ probe.out = <<>>
    /\ probe' = [probe EXCEPT
                   !.out = <<spectralTypes[ScanWeights(probe.arg, 0) + 1].class>>]
    /\ UNCHANGED <<pc, cfg, rng, i, j, numPlanets, numExoplanets, star, data,
                   drawLog, issued, mainpc, app, seedInput, io, store, wres>>

\* the branch on planetType in generatePlanet
SelectRegime ==
    /\ probe.fn = "regime"
    /\ probe.out = <<>>
    /\ probe' = [probe EXCEPT !.out = <<PlanetRegime(probe.arg)>>]
    /\ UNCHANGED <<pc, cfg, rng, i, j, numPlanets, numExoplanets, star, data,
                   drawLog, issued, mainpc, app, seedInput, io, store, wres>>

\* the surface temperature expression of generatePlanet and generateExoplanet
ComputeSurfaceTemp ==
    /\ probe.fn = "temp"
    /\ probe.out = <<>>
    /\ probe' = [probe EXCEPT !.out = <<SurfaceTemp(probe.arg.parent, probe.arg.axis)>>]
    /\ UNCHANGED <<pc, cfg, rng, i, j, numPlanets, numExoplanets, star, data,
                   drawLog, issued, mainpc, app, seedInput, io, store, wres>>

\* generatePlanet(r, star, 1) for a given star and stream
SamplePlanet ==
    /\ probe.fn = "planet"
    /\ probe.out = <<>>
    /\ probe' = [probe EXCEPT
                   !.out = <<generatePlanet(probe.arg.r, probe.arg.parent, 1, uuidNew(1)).v>>]
    /\ UNCHANGED <<pc, cfg, rng, i, j, numPlanets, numExoplanets, star, data,
                   drawLog, issued, mainpc, app, seedInput, io, store, wres>>

\* generateExoplanet(r, star, 1) for a given star and stream
SampleExoplanet ==
    /\ probe.fn = "exo"
    /\ probe.out = <<>>
    /\ probe' = [probe EXCEPT
                   !.out = <<generateExoplanet(probe.arg.r, probe.arg.parent, 1, uuidNew(1)).v>>]
    /\ UNCHANGED <<pc, cfg, rng, i, j, numPlanets, numExoplanets, star, data,
                   drawLog, issued, mainpc, app, seedInput, io, store, wres>>

NextSamplers ==
    \/ SelectClass
    \/ SelectRegime
    \/ ComputeSurfaceTemp
    \/ SamplePlanet
    \/ SampleExoplanet

SpecSamplers == InitSamplers /\ [][NextSamplers]_vars

NextPair ==
    \/ TestCall
    \/ SecondCall
    \/ \E g \in Runs : StarLoop(g)
    \/ \E g \in Runs : PlanetCount(g)
    \/ \E g \in Runs : PlanetLoop(g)
    \/ \E g \in Runs : ExoCount(g)
    \/ \E g \in Runs : ExoLoop(g)
    \/ \E g \in Runs : EndIteration(g)
    \/ \E g \in Runs : Return(g)

SpecPair == Init /\ [][NextPair]_vars

\* ------------------------------------------------------------ writer calls
\* the configurations of the result sets handed to the writers
WriterConfigs ==
    [NumStars : 0..MaxStars, PlanetsPerStar : {0, MaxPlanets},
     ExoPerStar : {0, MaxExo}, Seed : 0..MaxFlagSeed]

\* a program builds a result set with GenerateAll
WriterTestCall ==
    /\ mainpc = "start"
    /\ \E c \in WriterConfigs : GenerateAllStart({1}, c)
    /\ mainpc' = "test"
    /\ UNCHANGED <<app, seedInput, io, probe, store, wres>>

\* what can happen to one file of each format
CSVOutcomes == {"ok", "create", "write", "flush", "close"}
JSONOutcomes == {"ok", "create", "encode", "close"}
ParquetOutcomes == {"ok", "create", "open", "write", "stop", "close"}

\* the call of the cluster that fails
CassandraFailures ==
    {"none", "session", "keyspace", "session2", "tables", "stars", "planets",
     "exoplanets"}

\* the configuration files handed to WriteToCassandra
WriterFiles ==
    { [readable |-> FALSE, parses |-> FALSE, yaml |-> EmptyYaml],
      [readable |-> TRUE, parses |-> TRUE, yaml |-> EmptyYaml],
      [readable |-> TRUE, parses |-> TRUE,
       yaml |-> [EmptyYaml EXCEPT !.ReplicationClass = "SimpleStrategy",
                                  !.ReplicationFactor = 3]],
      [readable |-> TRUE, parses |-> TRUE,
       yaml |-> [EmptyYaml EXCEPT !.ReplicationClass = "NetworkTopologyStrategy",
                                  !.DataCenters = [dc \in {"dc1"} |-> 3]]],
      [readable |-> TRUE, parses |-> TRUE,
       yaml |-> [EmptyYaml EXCEPT !.ReplicationClass = "NetworkTopologyStrategy",
                                  !.ReplicationFactor = 3,
                                  !.DataCenters = [dc \in {"dc1", "dc2"} |->
                                                      IF dc = "dc1" THEN 1 ELSE 2]]],
      [readable |-> TRUE, parses |-> TRUE,
       yaml |-> [EmptyYaml EXCEPT !.Port = MaxPort + 1]] }

\* writers.WriteCSV(data, outputDir)
WriteCSVCall ==
    /\ mainpc = "test"
    /\ pc[1] = "done"
    /\ wres = <<>>
    /\ \E oc \in [1..3 -> CSVOutcomes] :
          LET r == WriteCSV(store, data[1], oc)
          IN /\ store' = r.store
             /\ wres' = <<[fn |-> "WriteCSV", err |-> r.err]>>
    /\ UNCHANGED <<pc, cfg, rng, i, j, numPlanets, numExoplanets, star, data,
                   drawLog, issued, mainpc, app, seedInput, io, probe>>

\* writers.WriteJSON(data, outputDir)
WriteJSONCall ==
    /\ mainpc = "test"
    /\ pc[1] = "done"
    /\ wres = <<>>
    /\ \E oc \in [1..3 -> JSONOutcomes] :
          LET r == WriteJSON(store, data[1], oc)
          IN /\ store' = r.store
             /\ wres' = <<[fn |-> "WriteJSON", err |-> r.err]>>
    /\ UNCHANGED <<pc, cfg, rng, i, j, numPlanets, numExoplanets, star, data,
                   drawLog, issued, mainpc, app, seedInput, io, probe>>

\* writers.WriteParquet(data, outputDir)
WriteParquetCall ==
    /\ mainpc = "test"
    /\ pc[1] = "done"
    /\ wres = <<>>
    /\ \E oc \in [1..3 -> ParquetOutcomes] :
          LET r == WriteParquet(store, data[1], oc)
          IN /\ store' = r.store
             /\ wres' = <<[fn |-> "WriteParquet", err |-> r.err]>>
    /\ UNCHANGED <<pc, cfg, rng, i, j, numPlanets, numExoplanets, star, data,
                   drawLog, issued, mainpc, app, seedInput, io, probe>>

\* writers.WriteToCassandra(data, configFile)
WriteToCassandraCall ==
    /\ mainpc = "test"
    /\ pc[1] = "done"
    /\ wres = <<>>
    /\ \E f \in WriterFiles, fail \in CassandraFailures :
          LET r == WriteToCassandra(store, data[1], f, fail)
          IN /\ store' = r.store
             /\ wres' = <<[fn |-> "WriteToCassandra", configFile |-> f, err |-> r.err]>>
    /\ UNCHANGED <<pc, cfg, rng, i, j, numPlanets, numExoplanets, star, data,
                   drawLog, issued, mainpc, app, seedInput, io, probe>>

NextWriters ==
    \/ WriterTestCall
    \/ Engine
    \/ WriteCSVCall
    \/ WriteJSONCall
    \/ WriteParquetCall
    \/ WriteToCassandraCall

SpecWriters == Init /\ [][NextWriters]_vars

\* ------------------------------------------ loading configuration files
\* host lists, keyspace names, consistency levels, replication settings,
\* ports and timings a configuration file may hold; an absent key is the zero
\* value of its field
HostLists ==
    { <<>>, << <<"n", "1">> >>, << <<" ", "n", "1", " ">>, <<" ">> >>, << <<>> >> }

KeyspaceNames ==
    { <<>>, <<"k", "S", "_", "1">>, <<"1", "k">>, <<"k", "-", "s">>,
      [k \in 1..MaxKeyspaceLen |-> "a"], [k \in 1..(MaxKeyspaceLen + 1) |-> "a"] }

ConsistencyLevels ==
    { <<>>, <<"q", "u", "o", "r", "u", "m">>,
      <<"L", "o", "c", "a", "l", "_", "O", "n", "e">>, <<"O", "N", "E">>,
      <<"m", "o", "s", "t">> }

ReplicationClasses == {"", "SimpleStrategy", "NetworkTopologyStrategy", "simple"}

ReplicationFactors == {-1, 0, 3}

DataCenterMaps ==
    { <<>>, [dc \in {"dc1"} |-> 3], [dc \in {"dc1", "dc2"} |-> IF dc = "dc1" THEN 2 ELSE 0],
      [dc \in {"dc1", "dc2"} |-> IF dc = "dc1" THEN 1 ELSE 2] }

Ports == {-1, 0, 1, MaxPort, MaxPort + 1}

\* timeout, connect_timeout and num_conns
Timings == { <<0, 0, 0>>, <<5, 5, 5>>, <<-1, 5, 5>>, <<5, -1, 5>>, <<5, 5, -1>>, <<5, 5, 11>> }

YamlConfigs ==
    { [Hosts |-> h, Keyspace |-> k, Consistency |-> cl, ReplicationClass |-> rc,
       ReplicationFactor |-> rf, DataCenters |-> dcs, Port |-> p,
       Timeout |-> t[1], ConnectTimeout |-> t[2], NumConns |-> t[3]] :
      h \in HostLists, k \in KeyspaceNames, cl \in ConsistencyLevels,
      rc \in ReplicationClasses, rf \in ReplicationFactors,
      dcs \in DataCenterMaps, p \in Ports, t \in Timings }

\* a missing file, a file that is not YAML, and the files that unmarshal
CassandraFiles ==
    { [readable |-> FALSE, parses |-> FALSE, yaml |-> EmptyYaml],
      [readable |-> TRUE, parses |-> FALSE, yaml |-> EmptyYaml] }
    \cup { [readable |-> TRUE, parses |-> TRUE, yaml |-> y] : y \in YamlConfigs }

InitCassandra ==
    /\ ProgramInit
    /\ probe \in { [fn |-> "load", arg |-> f, out |-> <<>>] : f \in CassandraFiles }

\* config.LoadCassandraConfig(filename)
LoadConfig ==
    /\ probe.fn = "load"
    /\ probe.out = <<>>
    /\ probe' = [probe EXCEPT !.out = <<LoadCassandraConfig(probe.arg)>>]
    /\ UNCHANGED <<pc, cfg, rng, i, j, numPlanets, numExoplanets, star, data,
                   drawLog, issued, mainpc, app, seedInput, io, store, wres>>

NextCassandra == LoadConfig

SpecCassandra == InitCassandra /\ [][NextCassandra]_vars


\* ------------------------------------------ concurrent invocations
\* configurations of invocations that run at the same time
ConcurrentConfigs ==
    [NumStars : 0..1,
     PlanetsPerStar : 0..1,
     ExoPerStar : 0..1,
     Seed : {0, MaxFlagSeed}]

\* a goroutine calls GenerateAll(cfg) while another invocation may be running
ConcurrentCall(g) ==
    /\ mainpc \in {"start", "test"}
    /\ \E c \in ConcurrentConfigs : GenerateAllStart({g}, c)
    /\ mainpc' = "test"
    /\ UNCHANGED <<app, seedInput, io, probe, store, wres>>

NextConcurrent ==
    \/ \E g \in Runs : ConcurrentCall(g)
    \/ \E g \in Runs : StarLoop(g)
    \/ \E g \in Runs : PlanetCount(g)
    \/ \E g \in Runs : PlanetLoop(g)
    \/ \E g \in Runs : ExoCount(g)
    \/ \E g \in Runs : ExoLoop(g)
    \/ \E g \in Runs : EndIteration(g)
    \/ \E g \in Runs : Return(g)

SpecConcurrent == Init /\ [][NextConcurrent]_vars

\* ------------------------------------------------------------- claims
SeqToSet(q) == {q[k] : k \in 1..Len(q)}

Returned(g) == pc[g] = "done"

NonNegative(c) == c.NumStars >= 0 /\ c.PlanetsPerStar >= 0 /\ c.ExoPerStar >= 0

\* C1: a returned result has exactly N stars, at most N*P planets and at
\* most N*E exoplanets, for N, P, E >= 0; N = 0 gives three empty sequences
CardinalityHolds ==
    \A g \in Runs :
        (Returned(g) /\ NonNegative(cfg[g])) =>
            /\ Len(data[g].Stars) = cfg[g].NumStars
            /\ Len(data[g].Planets) <= cfg[g].NumStars * cfg[g].PlanetsPerStar
            /\ Len(data[g].Exoplanets) <= cfg[g].NumStars * cfg[g].ExoPerStar
            /\ (cfg[g].NumStars = 0 => data[g] = NoData)

CardinalityReached ==
    /\ Returned(1)
    /\ cfg[1].NumStars = MaxStars
    /\ Len(data[1].Planets) = MaxStars * cfg[1].PlanetsPerStar
    /\ Len(data[1].Planets) > 0
    /\ Len(data[1].Exoplanets) > 0

\* C2: two returned runs with the same configuration are equal in every field
\* of every star, planet and exoplanet, the ID and StarID fields included
IdenticalIncludingIDs ==
    (Returned(1) /\ Returned(2) /\ cfg[1] = cfg[2]) => data[1] = data[2]

\* C3: in every result each planet's and each exoplanet's StarID is non-empty
\* and is the ID of some star of the Stars sequence of the same result
ReferentialIntegrity ==
    \A g \in Runs :
        \A x \in SeqToSet(data[g].Planets) \cup SeqToSet(data[g].Exoplanets) :
            /\ x.StarID # <<>>
            /\ \E k \in 1..Len(data[g].Stars) : data[g].Stars[k].ID = x.StarID

ReferenceToSecondStar ==
    /\ Returned(1)
    /\ Len(data[1].Stars) = 2
    /\ \E x \in SeqToSet(data[1].Planets) : x.StarID = data[1].Stars[2].ID
    /\ \E x \in SeqToSet(data[1].Exoplanets) : x.StarID = data[1].Stars[1].ID

OrbitInRange(x) ==
    /\ FLt(x.Eccentricity, D(1, 0))
    /\ FPos(x.Mass)
    /\ FPos(x.Radius)
    /\ FPos(x.OrbitalPeriod)
    /\ FPos(x.SemiMajorAxis)
    /\ x.DiscoveryYear \in 1990..2024

\* C4: every planet and exoplanet has eccentricity in [0,1), strictly positive
\* mass, radius, orbital period and semi-major axis and a discovery year in
\* 1990..2024; an exoplanet also a strictly positive host distance and a
\* non-empty detection method
RangeInvariants ==
    \A g \in Runs :
        /\ \A x \in SeqToSet(data[g].Planets) : OrbitInRange(x)
        /\ \A x \in SeqToSet(data[g].Exoplanets) :
               /\ OrbitInRange(x)
               /\ FPos(x.HostDistance)
               /\ x.DetectionMethod # ""

RangesExercised ==
    /\ Returned(1)
    /\ \E x \in SeqToSet(data[1].Planets) : FPos(x.Eccentricity) /\ x.DiscoveryYear > 1990
    /\ \E x \in SeqToSet(data[1].Exoplanets) : FPos(x.Eccentricity)

\* C5: every star has strictly positive mass, radius and temperature, a
\* non-empty ID and a spectral type of at least two characters
StarInvariants ==
    \A g \in Runs :
        \A x \in SeqToSet(data[g].Stars) :
            /\ FPos(x.Mass)
            /\ FPos(x.Radius)
            /\ x.Temperature > 0
            /\ x.ID # <<>>
            /\ Len(x.SpectralType) >= 2

TwoStarsReturned ==
    /\ Returned(1)
    /\ Len(data[1].Stars) = 2
    /\ data[1].Stars[1].SpectralType[1] # data[1].Stars[2].SpectralType[1]

\* the star of d that x refers to
ParentStar(d, x) == CHOOSE st \in SeqToSet(d.Stars) : st.ID = x.StarID

\* period^2 * star_mass and 365.25^2 * axis^3 agree up to rounding
KeplerRelation(period, axis, starMass) ==
    LET lhs == FMul(FMul(period, period), starMass)
        rhs == FMul(FMul([m |-> 36525, e |-> -2], [m |-> 36525, e |-> -2]),
                    FMul(FMul(axis, axis), axis))
        q   == FDiv(lhs, rhs)
    IN FLe(D(98, -2), q) /\ FLe(q, D(102, -2))

\* C6: the stored orbital period of every planet and exoplanet satisfies
\* period^2 * star_mass = 365.25^2 * axis^3 for its own stored axis and the
\* mass of the star its StarID refers to
KeplerConsistency ==
    \A g \in Runs :
        \A x \in SeqToSet(data[g].Planets) \cup SeqToSet(data[g].Exoplanets) :
            KeplerRelation(x.OrbitalPeriod, x.SemiMajorAxis, ParentStar(data[g], x).Mass)

KeplerExercised ==
    /\ Returned(1)
    /\ Len(data[1].Stars) = 2
    /\ \E x \in SeqToSet(data[1].Planets) :
           /\ FLt(D(2, 0), x.SemiMajorAxis)
           /\ ParentStar(data[1], x) = data[1].Stars[2]
    /\ \E x \in SeqToSet(data[1].Exoplanets) : FLt(x.SemiMajorAxis, D(5, -1))

\* a result without the identifier fields
StreamFields(d) ==
    [Stars |-> [k \in 1..Len(d.Stars) |->
                   [f \in (DOMAIN d.Stars[k]) \ {"ID"} |-> d.Stars[k][f]]],
     Planets |-> [k \in 1..Len(d.Planets) |->
                   [f \in (DOMAIN d.Planets[k]) \ {"ID", "StarID"} |-> d.Planets[k][f]]],
     Exoplanets |-> [k \in 1..Len(d.Exoplanets) |->
                   [f \in (DOMAIN d.Exoplanets[k]) \ {"ID", "StarID"} |-> d.Exoplanets[k][f]]]]

\* C7: two returned runs with the same configuration have the same number of
\* stars, planets and exoplanets and agree, position by position, on every
\* field drawn from the seeded stream (name, spectral type, mass, ...)
ReproducibleUpToIDs ==
    (Returned(1) /\ Returned(2) /\ cfg[1] = cfg[2]) =>
        StreamFields(data[1]) = StreamFields(data[2])

BothRunsReturned ==
    /\ Returned(1)
    /\ Returned(2)
    /\ Len(data[2].Stars) = 2
    /\ Len(data[2].Planets) > 0
    /\ Len(data[2].Exoplanets) > 0

RECURSIVE Dedup(_)
Dedup(q) ==
    IF Len(q) <= 1 THEN q
    ELSE IF q[1] = q[2] THEN Dedup(Tail(q))
    ELSE <<q[1]>> \o Dedup(Tail(q))

IsPrefix(a, b) == Len(a) <= Len(b) /\ SubSeq(b, 1, Len(a)) = a

CountOf(q, id) == Cardinality({k \in 1..Len(q) : q[k].StarID = id})

\* the consumers of the stream, in the order the claim prescribes, for the
\* stars 1..n of d and the planets and exoplanets d holds for them
RECURSIVE ExpectedOrder(_, _)
ExpectedOrder(d, n) ==
    IF n = 0 THEN <<>>
    ELSE ExpectedOrder(d, n - 1)
         \o << <<"star", n, 0>>, <<"pcount", n, 0>> >>
         \o [o \in 1..CountOf(d.Planets, d.Stars[n].ID) |-> <<"planet", n, o>>]
         \o << <<"ecount", n, 0>> >>
         \o [o \in 1..CountOf(d.Exoplanets, d.Stars[n].ID) |-> <<"exo", n, o>>]

\* C9: the stream is consumed star by star: the draws of star i, its planet
\* count, its planets 1..count in order, its exoplanet count, its exoplanets
\* 1..count in order, and only then the draws of star i+1
DrawOrder ==
    \A g \in Runs :
        /\ Len(drawLog[g]) = rng[g].n
        /\ IsPrefix(Dedup(drawLog[g]), ExpectedOrder(data[g], Len(data[g].Stars)))
        /\ Returned(g) =>
               Dedup(drawLog[g]) = ExpectedOrder(data[g], Len(data[g].Stars))

DrawOrderExercised ==
    /\ Returned(1)
    /\ \E k \in 1..Len(drawLog[1]) : drawLog[1][k] = <<"planet", 2, 2>>
    /\ \E k \in 1..Len(drawLog[1]) : drawLog[1][k] = <<"exo", 1, 2>>

\* C10: the configuration ParseFlags returned, which main hands to
\* GenerateAll, has NumStars >= 1, 0 <= PlanetsPerStar <= 15 and
\* 0 <= ExoPerStar <= 8
FlagsValidated ==
    mainpc \in {"parsed", "generating"} =>
        /\ app.NumStars >= 1
        /\ app.PlanetsPerStar \in 0..15
        /\ app.ExoPerStar \in 0..8

\* C11: ParseFlags replaces a --seed of 0 by the clock value it reads and
\* leaves every other seed unchanged without reading the clock; GenerateAll
\* reads no clock and initialises its stream from the seed it is given,
\* 0 included
SeedSubstitution ==
    /\ mainpc \in {"parsed", "generating", "exit", "fatal"} =>
           /\ seedInput.flag # 0 =>
                  (app.Seed = seedInput.flag /\ seedInput.clock = <<>>)
           /\ seedInput.flag = 0 => seedInput.clock = <<app.Seed>>
           /\ pc[1] # "idle" => cfg[1].Seed = app.Seed
    /\ mainpc = "test" => seedInput = NoSeedInput
    /\ \A g \in Runs :
           (pc[g] # "idle" /\ rng[g].n = 0) => rng[g].s = cfg[g].Seed % LcgM

SeedZeroOnCommandLine ==
    /\ mainpc = "exit"
    /\ seedInput.flag = 0
    /\ Returned(1)
    /\ Len(data[1].Stars) = 2

\* C12: within one result no two stars have the same ID
StarIDsDistinct ==
    \A g \in Runs :
        \A a, b \in 1..Len(data[g].Stars) :
            a # b => data[g].Stars[a].ID # data[g].Stars[b].ID

TwoStarsWithPlanetsBetween ==
    /\ Returned(1)
    /\ Len(data[1].Stars) = 2
    /\ \E x \in SeqToSet(data[1].Planets) : x.StarID = data[1].Stars[1].ID
    /\ data[1].Stars[1].ID # data[1].Stars[2].ID

\* C13: the star at position k (1-based) of Stars is named "Star-<k>"; star
\* names are pairwise distinct within a result
StarNamesByPosition ==
    \A g \in Runs :
        /\ \A k \in 1..Len(data[g].Stars) :
               data[g].Stars[k].Name = <<"Star-">> \o Itoa(k)
        /\ \A a, b \in 1..Len(data[g].Stars) :
               a # b => data[g].Stars[a].Name # data[g].Stars[b].Name

SecondStarNamed ==
    /\ Returned(1)
    /\ mainpc = "test"
    /\ Len(data[1].Stars) = 2
    /\ data[1].Stars[2].Name = <<"Star-", "2">>

\* the planets (exoplanets) of q that refer to the star id, in stored order
OfStar(q, id) == SelectSeq(q, LAMBDA x : x.StarID = id)

\* C14: for every star of a result of a configuration with P, E >= 0, the
\* planets referring to it number 0..P and the exoplanets 0..E, and they
\* carry the ordinals 1..count in order, named "<StarName>-Planet-<k>" and
\* "<StarName>-Exo-<k>"; with P = 0 (E = 0) there is no planet (exoplanet)
PerStarCounts ==
    \A g \in Runs :
        NonNegative(cfg[g]) =>
            /\ \A k \in 1..Len(data[g].Stars) :
                   LET st == data[g].Stars[k]
                       ps == OfStar(data[g].Planets, st.ID)
                       es == OfStar(data[g].Exoplanets, st.ID)
                   IN /\ Len(ps) <= cfg[g].PlanetsPerStar
                      /\ Len(es) <= cfg[g].ExoPerStar
                      /\ \A o \in 1..Len(ps) :
                             ps[o].Name = st.Name \o <<"-Planet-">> \o Itoa(o)
                      /\ \A o \in 1..Len(es) :
                             es[o].Name = st.Name \o <<"-Exo-">> \o Itoa(o)
            /\ cfg[g].PlanetsPerStar = 0 => data[g].Planets = <<>>
            /\ cfg[g].ExoPerStar = 0 => data[g].Exoplanets = <<>>

FullAndEmptySystems ==
    /\ Returned(1)
    /\ Len(data[1].Stars) = 2
    /\ cfg[1].PlanetsPerStar = 2
    /\ \E k \in 1..2 : Len(OfStar(data[1].Planets, data[1].Stars[k].ID)) = 2
    /\ \E k \in 1..2 : Len(OfStar(data[1].Planets, data[1].Stars[k].ID)) = 0
    /\ \E k \in 1..2 : Len(OfStar(data[1].Exoplanets, data[1].Stars[k].ID)) = cfg[1].ExoPerStar

\* C15: with --dry-run main generates the data and makes no call to
\* os.MkdirAll or to any writer, whatever the output format
DryRunWritesNothing ==
    (mainpc \in {"parsed", "generating", "exit", "fatal"} /\ app.DryRun) =>
        /\ io = <<>>
        /\ mainpc # "fatal"
        /\ mainpc = "exit" =>
               (Returned(1) /\ Len(data[1].Stars) = app.NumStars)

DryRunExit ==
    /\ mainpc = "exit"
    /\ app.DryRun
    /\ app.OutputFormat = "cassandra"
    /\ app.ConfigFile # ""
    /\ Len(data[1].Planets) > 0

ClassLetters == <<"O", "B", "A", "F", "G", "K", "M">>

\* the first position, in the order O, B, A, F, G, K, M, whose cumulative
\* weight is >= v
FirstReaching(v) ==
    CHOOSE k \in 1..7 :
        /\ FLe(v, CumulativeWeight(k))
        /\ \A h \in 1..(k - 1) : ~FLe(v, CumulativeWeight(h))

\* C16: for a value v in [0, total) the class selected is the first one, in
\* the order O, B, A, F, G, K, M, whose cumulative weight is >= v; a value
\* equal to a cumulative weight selects the earlier class; every v selects
\* one of the seven classes
FirstMatchSelection ==
    (probe.fn = "class" /\ probe.out # <<>>) =>
        /\ probe.out[1] \in SeqToSet(ClassLetters)
        /\ probe.out[1] = ClassLetters[FirstReaching(probe.arg)]
        /\ \A k \in 1..6 :
               probe.arg = CumulativeWeight(k) => probe.out[1] = ClassLetters[k]

BoundaryValueSelected ==
    /\ probe.fn = "class"
    /\ probe.arg = CumulativeWeight(4)
    /\ probe.out = <<"F">>

\* the table entry of the class letter c
ClassEntry(c) == CHOOSE t \in SeqToSet(spectralTypes) : t.class = c

\* C17: mass and radius of every star lie in the mass and radius range, and
\* its temperature in the Kelvin range (both ends included), of the class
\* named by the first character of its SpectralType
StarWithinClassRanges ==
    \A g \in Runs :
        \A x \in SeqToSet(data[g].Stars) :
            LET t == ClassEntry(x.SpectralType[1])
            IN /\ FLe(t.massRange[1], x.Mass) /\ FLe(x.Mass, t.massRange[2])
               /\ FLe(t.radiusRange[1], x.Radius) /\ FLe(x.Radius, t.radiusRange[2])
               /\ x.Temperature \in t.tempRange[1]..t.tempRange[2]

StarsOfTwoClasses ==
    /\ Returned(1)
    /\ Len(data[1].Stars) = 2
    /\ data[1].Stars[1].SpectralType[1] = "M"
    /\ data[1].Stars[2].SpectralType[1] = "G"
    /\ data[1].Stars[2].Temperature > 5200

\* C18: every SpectralType is exactly three characters: a class letter of
\* O, B, A, F, G, K, M, a digit 0..9 and the luminosity class V
SpectralTypeFormat ==
    \A g \in Runs :
        \A x \in SeqToSet(data[g].Stars) :
            /\ Len(x.SpectralType) = 3
            /\ x.SpectralType[1] \in SeqToSet(ClassLetters)
            /\ x.SpectralType[2] \in {"0", "1", "2", "3", "4", "5", "6", "7", "8", "9"}
            /\ x.SpectralType[3] = "V"

SpectralTypeWithDigit ==
    /\ Returned(1)
    /\ Len(data[1].Stars) = 1
    /\ data[1].Stars[1].SpectralType[2] = "9"

\* mass and radius of x lie in the ranges rg = <<massMin, massMax,
\* radiusMin, radiusMax>>, the upper ends excluded
InRegime(x, rg) ==
    /\ FLe(rg[1], x.Mass) /\ FLt(x.Mass, rg[2])
    /\ FLe(rg[3], x.Radius) /\ FLt(x.Radius, rg[4])

\* C19: every planet lies in exactly one of the three regimes, with mass and
\* radius from the same regime: rocky (0.1-5.0, 0.3-2.0), ice giant
\* (5.0-20.0, 2.0-4.0), gas giant (20.0-1000.0, 4.0-15.0)
OneRegimePerPlanet ==
    \A g \in Runs :
        \A x \in SeqToSet(data[g].Planets) :
            Cardinality({rg \in {RockyRanges, IceGiantRanges, GasGiantRanges} :
                            InRegime(x, rg)}) = 1

AllRegimesGenerated ==
    /\ Returned(1)
    /\ \A rg \in {RockyRanges, IceGiantRanges, GasGiantRanges} :
           \E x \in SeqToSet(data[1].Planets) : InRegime(x, rg)

\* C20 as stated: a regime draw equal to 0.3 selects the rocky band and a
\* draw equal to 0.6 selects the ice giant band
CutPointsInLowerBand ==
    (probe.fn = "regime" /\ probe.out # <<>>) =>
        /\ probe.arg = D(3, -1) => probe.out[1] = RockyRanges
        /\ probe.arg = D(6, -1) => probe.out[1] = IceGiantRanges

\* C20 amended: the bands are closed on the low end and open on the high end:
\* a draw below 0.3 selects the rocky band, a draw in [0.3, 0.6) the ice
\* giant band and a draw of 0.6 or more the gas giant band, so that 0.3
\* selects the ice giant band and 0.6 the gas giant band
CutPointsInUpperBand ==
    (probe.fn = "regime" /\ probe.out # <<>>) =>
        /\ probe.arg = D(3, -1) => probe.out[1] = IceGiantRanges
        /\ probe.arg = D(6, -1) => probe.out[1] = GasGiantRanges
        /\ FLt(probe.arg, D(3, -1)) => probe.out[1] = RockyRanges
        /\ (FLt(D(3, -1), probe.arg) /\ FLt(probe.arg, D(6, -1))) =>
               probe.out[1] = IceGiantRanges
        /\ FLt(D(6, -1), probe.arg) => probe.out[1] = GasGiantRanges

CutPointDrawn ==
    /\ probe.fn = "regime"
    /\ probe.arg = D(3, -1)
    /\ probe.out = <<IceGiantRanges>>

\* C21: every planet's eccentricity is in [0.0, 0.3) and every exoplanet's
\* eccentricity is in [0.0, 0.5); the upper bound is never reached
EccentricityBands ==
    \A g \in Runs :
        /\ \A x \in SeqToSet(data[g].Planets) :
               FLe(FZero, x.Eccentricity) /\ FLt(x.Eccentricity, D(3, -1))
        /\ \A x \in SeqToSet(data[g].Exoplanets) :
               FLe(FZero, x.Eccentricity) /\ FLt(x.Eccentricity, D(5, -1))

EccentricityNearBounds ==
    /\ Returned(1)
    /\ \E x \in SeqToSet(data[1].Planets) : FLe(D(28, -2), x.Eccentricity)
    /\ \E x \in SeqToSet(data[1].Exoplanets) : FLe(D(45, -2), x.Eccentricity)

\* t is the integer truncation of temp * sqrt(radius / (2 * axis)), up to the
\* rounding of the float operations: t^2 * 2 * axis over temp^2 * radius is 1
TempRelation(t, parent, axis) ==
    LET lhs == FMul(FMul(FromInt(t), FromInt(t)), FMul(D(2, 0), axis))
        up  == FMul(FMul(FromInt(t + 1), FromInt(t + 1)), FMul(D(2, 0), axis))
        rhs == FMul(FMul(FromInt(parent.Temperature), FromInt(parent.Temperature)),
                    parent.Radius)
    IN /\ FLe(FDiv(lhs, rhs), D(1005, -3))
       /\ FLe(D(995, -3), FDiv(up, rhs))

\* C22: the surface temperature of a planet or exoplanet is the integer
\* truncation of star_temp * sqrt(star_radius / (2 * axis)) for its parent
\* star and its own axis; for the stars at the ends of every class range and
\* every axis of [0.05, 50] resp. [0.01, 5] it is strictly positive and fits
\* a signed 32-bit integer
SurfaceTempDerived ==
    /\ (probe.fn = "temp" /\ probe.out # <<>>) =>
           /\ TempRelation(probe.out[1], probe.arg.parent, probe.arg.axis)
           /\ probe.out[1] > 0
           /\ probe.out[1] <= 2147483647
    /\ (probe.fn \in {"planet", "exo"} /\ probe.out # <<>>) =>
           /\ TempRelation(probe.out[1].SurfaceTemp, probe.arg.parent,
                           probe.out[1].SemiMajorAxis)
           /\ probe.out[1].StarID = probe.arg.parent.ID
           /\ probe.out[1].SurfaceTemp > 0
           /\ probe.out[1].SurfaceTemp <= 2147483647

SurfaceTempExtremes ==
    /\ probe.fn = "temp"
    /\ probe.out # <<>>
    /\ \/ /\ probe.arg.parent.Temperature = 50000
          /\ probe.arg.parent.Radius = D(15, 0)
          /\ probe.arg.axis = D(1, -2)
          /\ probe.out[1] > 1000000
       \/ /\ probe.arg.parent.Temperature = 2400
          /\ probe.arg.parent.Radius = D(1, -1)
          /\ probe.arg.axis = D(50, 0)
          /\ probe.out[1] < 100

\* the position in d.Stars of the star x refers to
StarIndex(d, x) == CHOOSE k \in 1..Len(d.Stars) : d.Stars[k].ID = x.StarID

\* q is stored star-major: the stars referred to never step back along the
\* sequence, and the k-th entry of a star carries ordinal k
StarMajor(d, q, kind) ==
    /\ \A a \in 1..Len(q) : \A b \in a..Len(q) :
           StarIndex(d, q[a]) <= StarIndex(d, q[b])
    /\ \A n \in 1..Len(d.Stars) :
           LET own == OfStar(q, d.Stars[n].ID)
           IN \A k \in 1..Len(own) :
                  own[k].Name = d.Stars[n].Name \o <<kind>> \o Itoa(k)

\* C23: Planets and Exoplanets are stored in star-major order (the entries
\* of a star contiguous, the groups in the order of the Stars sequence,
\* ordinals ascending from 1 within a group), and after every iteration of
\* the star loop the three sequences hold exactly the entities of the stars
\* processed so far
StarMajorOrder ==
    \A g \in Runs :
        /\ StarMajor(data[g], data[g].Planets, "-Planet-")
        /\ StarMajor(data[g], data[g].Exoplanets, "-Exo-")
        /\ pc[g] \in {"star", "done"} =>
               /\ Len(data[g].Stars) = i[g]
               /\ \A n \in 1..i[g] : data[g].Stars[n].Name = <<"Star-">> \o Itoa(n)
               /\ \A x \in SeqToSet(data[g].Planets) \cup SeqToSet(data[g].Exoplanets) :
                      \E n \in 1..i[g] : data[g].Stars[n].ID = x.StarID
               /\ i[g] > 0 =>
                      /\ CountOf(data[g].Planets, data[g].Stars[i[g]].ID) = numPlanets[g]
                      /\ CountOf(data[g].Exoplanets, data[g].Stars[i[g]].ID) = numExoplanets[g]

TwoGroupsStored ==
    /\ pc[1] = "star"
    /\ i[1] = 2
    /\ Len(data[1].Planets) >= 3
    /\ Len(data[1].Exoplanets) >= 3
    /\ data[1].Planets[1].StarID = data[1].Stars[1].ID
    /\ data[1].Planets[Len(data[1].Planets)].StarID = data[1].Stars[2].ID
    /\ data[1].Exoplanets[1].StarID = data[1].Stars[1].ID
    /\ data[1].Exoplanets[Len(data[1].Exoplanets)].StarID = data[1].Stars[2].ID

\* the planets k..n of parent drawn from r by an invocation on its own
RECURSIVE AlonePlanets(_, _, _, _)
AlonePlanets(r, parent, k, n) ==
    IF k > n THEN [v |-> <<>>, r |-> r]
    ELSE LET one  == generatePlanet(r, parent, k, <<>>)
             rest == AlonePlanets(one.r, parent, k + 1, n)
         IN [v |-> <<one.v>> \o rest.v, r |-> rest.r]

RECURSIVE AloneExoplanets(_, _, _, _)
AloneExoplanets(r, parent, k, n) ==
    IF k > n THEN [v |-> <<>>, r |-> r]
    ELSE LET one  == generateExoplanet(r, parent, k, <<>>)
             rest == AloneExoplanets(one.r, parent, k + 1, n)
         IN [v |-> <<one.v>> \o rest.v, r |-> rest.r]

\* the result of the stars n..c.NumStars drawn from r by an invocation on
\* its own
RECURSIVE AloneFrom(_, _, _)
AloneFrom(c, r, n) ==
    IF n > c.NumStars THEN NoData
    ELSE LET st   == generateStar(r, n, <<>>)
             pcnt == Intn(st.r, c.PlanetsPerStar + 1)
             ps   == AlonePlanets(pcnt.r, st.v, 1, pcnt.v)
             ecnt == Intn(ps.r, c.ExoPerStar + 1)
             es   == AloneExoplanets(ecnt.r, st.v, 1, ecnt.v)
             rest == AloneFrom(c, es.r, n + 1)
         IN [Stars |-> <<st.v>> \o rest.Stars,
             Planets |-> ps.v \o rest.Planets,
             Exoplanets |-> es.v \o rest.Exoplanets]

\* the result of GenerateAll(c) when no other invocation runs
Alone(c) == AloneFrom(c, [s |-> c.Seed % LcgM, n |-> 0], 1)

\* a step leaves the result of a returned invocation alone, and changes the
\* stream or the result of at most one invocation
OwnStateOnly ==
    \A g \in Runs :
        /\ (Returned(g) /\ Returned(g)') => data'[g] = data[g]
        /\ \A h \in Runs \ {g} :
               (rng'[g] # rng[g] \/ data'[g] # data[g]) =>
                   (rng'[h] = rng[h] /\ data'[h] = data[h])

\* C24: each invocation owns its stream and its result: with two invocations
\* interleaved, a step advances the stream and extends the result of one
\* invocation only, the stream-derived fields of a returned result are those
\* of the same invocation run alone, and a returned result is not changed
IsolatedInvocations ==
    /\ [](\A g \in Runs :
             Returned(g) => StreamFields(data[g]) = StreamFields(Alone(cfg[g])))
    /\ [][OwnStateOnly]_vars

InterleavedReturned ==
    /\ Returned(1)
    /\ Returned(2)
    /\ cfg[1] # cfg[2]
    /\ Len(data[1].Planets) > 0
    /\ Len(data[2].Planets) > 0
    /\ data[1].Stars[1].ID[1] > data[2].Stars[1].ID[1]
    /\ data[1].Planets[1].ID[1] < data[2].Planets[1].ID[1]

\* a configuration as the configuration layer declares it: a non-negative
\* star count and caps of at most 15 planets and 8 exoplanets
ValidConfig(c) ==
    /\ c.NumStars >= 0
    /\ c.PlanetsPerStar \in 0..15
    /\ c.ExoPerStar \in 0..8

Running(g) == pc[g] \in {"star", "pcount", "planet", "exo"}

\* the loops stay within their iteration counts and every draw made so far
\* went into an entity or a count of the result
WithinIterations ==
    \A g \in Runs :
        ValidConfig(cfg[g]) =>
            /\ pc[g] # "panic"
            /\ i[g] <= cfg[g].NumStars
            /\ Len(data[g].Stars) <= cfg[g].NumStars
            /\ numPlanets[g] <= cfg[g].PlanetsPerStar
            /\ numExoplanets[g] <= cfg[g].ExoPerStar
            /\ pc[g] = "planet" => j[g] <= numPlanets[g]
            /\ pc[g] = "exo" => j[g] <= numExoplanets[g]
            /\ Returned(g) =>
                   /\ i[g] = cfg[g].NumStars
                   /\ rng[g].n = 7 * Len(data[g].Stars) + 9 * Len(data[g].Planets)
                                 + 7 * Len(data[g].Exoplanets)

\* a step never goes back: the loop variable, the stream position and the
\* three sequences only grow, and what is stored stays stored
NoBacktracking ==
    \A g \in Runs :
        Running(g) =>
            /\ i'[g] \in {i[g], i[g] + 1}
            /\ rng'[g].n >= rng[g].n
            /\ IsPrefix(data[g].Stars, data'[g].Stars)
            /\ IsPrefix(data[g].Planets, data'[g].Planets)
            /\ IsPrefix(data[g].Exoplanets, data'[g].Exoplanets)
            /\ pc'[g] # "idle"

\* C25: for a valid configuration GenerateAll is one linear pass that
\* terminates: the star loop makes exactly N iterations, each inner loop
\* exactly the drawn count (at most P resp. E), nothing is retried or taken
\* back, and a started call returns
LinearPass ==
    /\ []WithinIterations
    /\ [][NoBacktracking]_vars
    /\ \A g \in {1} : (Running(g) /\ ValidConfig(cfg[g])) ~> Returned(g)

LongestPass ==
    /\ Returned(1)
    /\ ValidConfig(cfg[1])
    /\ cfg[1].NumStars = MaxStars
    /\ i[1] = MaxStars
    /\ Len(data[1].Planets) > MaxPlanets
    /\ Len(data[1].Exoplanets) > 0
    /\ rng[1].n > 7 * MaxStars

\* the names of q are pairwise distinct
DistinctNames(q) ==
    \A a \in 1..Len(q) : \A b \in 1..Len(q) : q[a].Name = q[b].Name => a = b

\* the name of x is the name of the star x refers to, then kind, then an
\* ordinal k >= 1
NamedAfterParent(d, x, kind) ==
    \E k \in 1..Len(d.Planets) + Len(d.Exoplanets) :
        x.Name = ParentStar(d, x).Name \o <<kind>> \o Itoa(k)

\* C26: the star a planet's or exoplanet's StarID refers to is the star whose
\* name is the prefix of its name ("<StarName>-Planet-<k>", "<StarName>-Exo-<k>"),
\* and planet names are pairwise distinct and exoplanet names are pairwise
\* distinct within a result
NameMatchesParent ==
    \A g \in Runs :
        /\ \A x \in SeqToSet(data[g].Planets) : NamedAfterParent(data[g], x, "-Planet-")
        /\ \A x \in SeqToSet(data[g].Exoplanets) : NamedAfterParent(data[g], x, "-Exo-")
        /\ DistinctNames(data[g].Planets)
        /\ DistinctNames(data[g].Exoplanets)

SameOrdinalUnderTwoStars ==
    /\ Returned(1)
    /\ \E x \in SeqToSet(data[1].Planets) : \E y \in SeqToSet(data[1].Planets) :
           /\ x.StarID # y.StarID
           /\ x.Name[Len(x.Name)] = y.Name[Len(y.Name)]
    /\ \E x \in SeqToSet(data[1].Exoplanets) : \E y \in SeqToSet(data[1].Exoplanets) :
           /\ x.StarID # y.StarID
           /\ x.Name[Len(x.Name)] = y.Name[Len(y.Name)]


\* C29: LoadCassandraConfig fills in the defaults before it validates, and
\* returns either a nil configuration with an error, or no error with a
\* configuration that has a non-blank host in every place of a non-empty host
\* list, a keyspace name of 1..48 letters, digits and underscores that does
\* not start with a digit, an upper-cased consistency level of the allowed
\* set, a known replication class with its replication factors at least 1, a
\* port in 1..65535, timeouts of at least 1 and at least 1 connection.
NonBlank(str) == \E k \in 1..Len(str) : str[k] # " "

KeyspaceRule(name) ==
    /\ Len(name) \in 1..48
    /\ \A k \in 1..Len(name) :
          name[k] \in SeqToSet(LowerCase) \cup SeqToSet(UpperCase) \cup Digits \cup {"_"}
    /\ name[1] \notin Digits

SatisfiesRules(c) ==
    /\ Len(c.Hosts) >= 1
    /\ \A k \in 1..Len(c.Hosts) : NonBlank(c.Hosts[k])
    /\ KeyspaceRule(c.Keyspace)
    /\ c.Consistency \in validConsistencies
    /\ \A k \in 1..Len(c.Consistency) : ~IsLower(c.Consistency[k])
    /\ c.ReplicationClass \in {"SimpleStrategy", "NetworkTopologyStrategy"}
    /\ c.ReplicationClass = "SimpleStrategy" => c.ReplicationFactor >= 1
    /\ c.ReplicationClass = "NetworkTopologyStrategy" =>
          /\ DOMAIN c.DataCenters # {}
          /\ \A dc \in DOMAIN c.DataCenters : c.DataCenters[dc] >= 1
    /\ c.Port \in 1..65535
    /\ c.Timeout >= 1
    /\ c.ConnectTimeout >= 1
    /\ c.NumConns >= 1

\* a key the file leaves out does not make the file invalid
OnlyDefaultsMissing(y) ==
    /\ y.ReplicationClass = ""
    /\ y.ReplicationFactor = 0
    /\ y.Hosts # <<>> => \A k \in 1..Len(y.Hosts) : NonBlank(y.Hosts[k])
    /\ y.Keyspace # <<>> => KeyspaceRule(y.Keyspace)
    /\ y.Consistency # <<>> => ToUpper(y.Consistency) \in validConsistencies
    /\ y.Port \in 0..65535
    /\ y.Timeout >= 0
    /\ y.ConnectTimeout >= 0
    /\ y.NumConns >= 0

LoadedConfigValid ==
    (probe.fn = "load" /\ probe.out # <<>>) =>
        LET r == probe.out[1]
            f == probe.arg
        IN /\ \/ r.cfg = NilConfig /\ r.err # <<>>
              \/ r.err = <<>> /\ r.cfg # NilConfig /\ SatisfiesRules(r.cfg)
           /\ (f.readable /\ f.parses /\ OnlyDefaultsMissing(f.yaml)) => r.err = <<>>
           /\ (f.readable /\ f.parses /\ f.yaml = EmptyYaml) =>
                 /\ r.cfg.Hosts = DefaultHosts
                 /\ r.cfg.Keyspace = DefaultKeyspace
                 /\ r.cfg.Port = DefaultPort

\* a file without keyspace and port, with a lower-case consistency level and
\* two data centers, was loaded without error
DefaultsThenAccepted ==
    /\ probe.fn = "load"
    /\ probe.out # <<>>
    /\ probe.out[1].err = <<>>
    /\ probe.arg.yaml.Keyspace = <<>>
    /\ probe.arg.yaml.Port = 0
    /\ probe.out[1].cfg.Consistency # probe.arg.yaml.Consistency
    /\ probe.arg.yaml.Consistency # <<>>
    /\ probe.out[1].cfg.ReplicationClass = "NetworkTopologyStrategy"
    /\ Cardinality(DOMAIN probe.out[1].cfg.DataCenters) = 2


\* C27: a CSV file, Parquet file or Cassandra table that was written in full
\* has one column per field of its entity, in the order of the fields and
\* named after them (6 for stars, 13 for planets, 12 for exoplanets), and one
\* row per entity of the result set, in the order of the result set, whose
\* values are the values of the entity's fields.
KindFields(kind) ==
    IF kind = "stars" THEN StarFields
    ELSE IF kind = "planets" THEN PlanetFields
    ELSE ExoplanetFields

FieldCount(kind) == IF kind = "stars" THEN 6 ELSE IF kind = "planets" THEN 13 ELSE 12

KindEntities(d, kind) ==
    IF kind = "stars" THEN d.Stars
    ELSE IF kind = "planets" THEN d.Planets
    ELSE d.Exoplanets

SnakeCase(field) ==
    CASE field = "ID" -> "id"
      [] field = "Name" -> "name"
      [] field = "SpectralType" -> "spectral_type"
      [] field = "Mass" -> "mass"
      [] field = "Radius" -> "radius"
      [] field = "Temperature" -> "temperature"
      [] field = "OrbitalPeriod" -> "orbital_period"
      [] field = "SemiMajorAxis" -> "semi_major_axis"
      [] field = "Eccentricity" -> "eccentricity"
      [] field = "Atmosphere" -> "atmosphere"
      [] field = "SurfaceTemp" -> "surface_temp"
      [] field = "HasRings" -> "has_rings"
      [] field = "HasMoons" -> "has_moons"
      [] field = "DiscoveryYear" -> "discovery_year"
      [] field = "StarID" -> "star_id"
      [] field = "DetectionMethod" -> "detection_method"
      [] field = "HostDistance" -> "host_distance"

\* the text of a field's value in a CSV file
CSVText(field, v) ==
    IF field \in {"Mass", "Radius", "OrbitalPeriod", "SemiMajorAxis",
                  "Eccentricity", "HostDistance"}
    THEN (IF v.e >= -6 THEN v ELSE Norm((v.m + Pow10(-6 - v.e) \div 2) \div Pow10(-6 - v.e), -6))
    ELSE IF field \in {"Temperature", "SurfaceTemp", "DiscoveryYear"} THEN Itoa(v)
    ELSE IF field \in {"HasRings", "HasMoons"} THEN (IF v THEN "true" ELSE "false")
    ELSE v

\* the artefacts of the three outputs: name, kind, and whether it is text
Artefacts ==
    { <<k \o ".csv", k, TRUE>> : k \in {"stars", "planets", "exoplanets"} }
    \cup { <<k \o ".parquet", k, FALSE>> : k \in {"stars", "planets", "exoplanets"} }
    \cup { <<k, k, FALSE>> : k \in {"stars", "planets", "exoplanets"} }

Preserved(art, entities, fields, text) ==
    /\ Len(art.columns) = Len(fields)
    /\ \A c \in 1..Len(fields) :
          art.columns[c] = IF text THEN fields[c] ELSE SnakeCase(fields[c])
    /\ Len(art.rows) = Len(entities)
    /\ \A k \in 1..Len(entities) :
          /\ DOMAIN entities[k] = SeqToSet(fields)
          /\ Len(art.rows[k]) = Len(fields)
          /\ \A c \in 1..Len(fields) :
                art.rows[k][c] = IF text THEN CSVText(fields[c], entities[k][fields[c]])
                                 ELSE entities[k][fields[c]]

FieldForField ==
    \A a \in Artefacts :
        (a[1] \in DOMAIN store /\ store[a[1]].complete) =>
            /\ Len(store[a[1]].columns) = FieldCount(a[2])
            /\ Preserved(store[a[1]], KindEntities(data[1], a[2]), KindFields(a[2]), a[3])

\* three CSV files were written in full for a result set with two stars, more
\* than two planets, one of them with moons, and an exoplanet
ThreeFilesInFull ==
    /\ wres # <<>>
    /\ wres[1].fn = "WriteCSV"
    /\ wres[1].err = <<>>
    /\ \A n \in {"stars.csv", "planets.csv", "exoplanets.csv"} :
          n \in DOMAIN store /\ store[n].complete
    /\ Len(store["stars.csv"].rows) = MaxStars
    /\ Len(store["planets.csv"].rows) > 2
    /\ Len(store["exoplanets.csv"].rows) > 0
    /\ \E k \in 1..Len(data[1].Planets) : data[1].Planets[k].HasMoons


\* C28: WriteCSV, WriteJSON and WriteParquet create the stars file, then the
\* planets file, then the exoplanets file; they return nil exactly when all
\* three files were written in full, and otherwise an error that names the
\* first kind whose file was not, with no file of a later kind created.
FileNames(fn) ==
    IF fn = "WriteCSV" THEN <<"stars.csv", "planets.csv", "exoplanets.csv">>
    ELSE IF fn = "WriteJSON" THEN <<"stars.json", "planets.json", "exoplanets.json">>
    ELSE <<"stars.parquet", "planets.parquet", "exoplanets.parquet">>

FailureMessage(fn, k) ==
    "failed to write " \o <<"stars", "planets", "exoplanets">>[k] \o
    (IF fn = "WriteCSV" THEN " CSV" ELSE IF fn = "WriteJSON" THEN " JSON" ELSE " parquet")

WrittenInFull(name) == name \in DOMAIN store /\ store[name].complete

StopsAtFirstFailure ==
    (wres # <<>> /\ wres[1].fn \in {"WriteCSV", "WriteJSON", "WriteParquet"}) =>
        LET names == FileNames(wres[1].fn)
        IN /\ wres[1].err = <<>> <=> \A k \in 1..3 : WrittenInFull(names[k])
           /\ \A k \in 1..3 :
                 (~WrittenInFull(names[k]) /\ \A m \in 1..(k - 1) : WrittenInFull(names[m])) =>
                     /\ wres[1].err = <<FailureMessage(wres[1].fn, k)>>
                     /\ \A m \in (k + 1)..3 : names[m] \notin DOMAIN store
           /\ \A k \in 2..3 : names[k] \in DOMAIN store => names[k - 1] \in DOMAIN store


\* C30: the replication map of the CREATE KEYSPACE statement WriteToCassandra
\* issues is the one GetReplicationString gives for the loaded configuration:
\* class and replication_factor for SimpleStrategy, class and one entry per
\* data center for NetworkTopologyStrategy, in some order of the data centers.
Orders(S) ==
    { q \in [1..Cardinality(S) -> S] :
        \A a, b \in 1..Cardinality(S) : a # b => q[a] # q[b] }

KeyspaceReplication ==
    (/\ wres # <<>>
     /\ wres[1].fn = "WriteToCassandra"
     /\ "CREATE KEYSPACE" \in DOMAIN store) =>
        LET c == LoadCassandraConfig(wres[1].configFile).cfg
        IN \E order \in Orders(DOMAIN c.DataCenters) :
              store["CREATE KEYSPACE"].replication = GetReplicationString(c, order)

====
